---- MODULE Spec2Model ----
(***************************************************************************)
(* Model of the educational blockchain node: the ledger of blockchain.py   *)
(* (Transaction, Block, Blockchain) and the inbound message handlers of    *)
(* p2p_network.py (P2PNode).                                               *)
(*                                                                         *)
(* Strings produced by SHA-256 are modelled as tuples: the digest of a     *)
(* preimage x is the 1-tuple <<x>>, so two digests are equal exactly when  *)
(* their preimages are (a collision-free hash); the literal string "0" is  *)
(* the empty tuple.  The number of leading '0' characters of a digest is a *)
(* fixed function of its preimage (LeadingZeros).                          *)
(* Amounts are integers; the clock counts ticks of 1/TicksPerSec second.   *)
(***************************************************************************)
EXTENDS Integers, Sequences, FiniteSets, TLC

VARIABLES chain, pending_transactions, difficulty, utxo_set,
          last_mining_time, now, ret, threads, wallets, pkl, peers, sockets

vars == <<chain, pending_transactions, difficulty, utxo_set,
          last_mining_time, now, ret, threads, wallets, pkl, peers, sockets>>

\* what the calls on the ledger alone leave as it is: the threads in
\* progress, the wallets, the file blockchain.pkl, the peer set of the
\* P2PNode and the messages on their way between the nodes
rest == <<threads, wallets, pkl, peers, sockets>>

(***************************************************************************)
(* Bounds of the model                                                     *)
(***************************************************************************)
\* longest chain a node builds or adopts
MaxChain == 3
\* most transactions a node holds, in the chain and the mempool together
MaxTransactions == 4
\* number of characters of a digest (64 for SHA-256)
HashLen == 2
\* largest difficulty a Blockchain is constructed with
MaxInitDifficulty == 1
\* resolution of the clock: ticks per second
TicksPerSec == 2

(***************************************************************************)
(* Program constants                                                       *)
(***************************************************************************)
mining_reward == 50
target_block_time == 10

\* the instants (in ticks) at which time.time() is read: 1 s, just after
\* 1 s, 6 s and 27 s
ClockValues == {TicksPerSec, TicksPerSec + 1, 6 * TicksPerSec, 27 * TicksPerSec}

Wallets == {"Alice", "Bob"}
Senders == {"Genesis"} \cup Wallets
Amounts == {30}

\* the string "0" (previous_hash and merkle_root of the genesis block)
ZeroStr == << >>
\* Python's None (an unsigned transaction, a rejected mine_block)
None == << >>

Last(s) == s[Len(s)]

RECURSIVE SumSeq(_)
SumSeq(s) == IF s = << >> THEN 0 ELSE s[1] + SumSeq(Tail(s))

RECURSIVE Pow2(_)
Pow2(k) == IF k = 0 THEN 1 ELSE 2 * Pow2(k - 1)

(***************************************************************************)
(* hashlib.sha256(...).hexdigest() and str.startswith("0" * d)             *)
(***************************************************************************)
\* int(time.time())
IntTime(t) == t \div TicksPerSec

\* a collision-free digest: equal digests have equal preimages
SHA256(preimage) == <<preimage>>

\* what decides the characters of a block digest: the numeric fields of the
\* block_data it was computed from
Mix(h) ==
    IF h = ZeroStr \/ Len(h[1]) # 7 THEN 1
    ELSE LET b == h[1] IN b[1] + b[2] + Len(b[3]) + b[5] + b[6]

\* number of leading '0' characters of the digest h (at most HashLen)
LeadingZeros(h) ==
    LET m == Mix(h)
    IN  IF m < 0 THEN 0
        ELSE CHOOSE k \in 0..HashLen :
                /\ m % Pow2(k) = 0
                /\ \A j \in (k + 1)..HashLen : m % Pow2(j) # 0

\* h.startswith("0" * d); "0" * d is the empty string when d <= 0
StartsWithZeros(h, d) == LeadingZeros(h) >= d

(***************************************************************************)
(* Transaction                                                             *)
(***************************************************************************)
Transaction(sender, recipient, amount, transaction_id, timestamp, signature) ==
    [sender |-> sender, recipient |-> recipient, amount |-> amount,
     transaction_id |-> transaction_id, timestamp |-> timestamp,
     signature |-> signature]

\* Transaction.to_dict: the signature is left out
tx_to_dict(tx) ==
    <<tx.sender, tx.recipient, tx.amount, tx.transaction_id, tx.timestamp>>

\* Transaction.calculate_hash
tx_calculate_hash(tx) == SHA256(tx_to_dict(tx))

\* f"{sender}_{recipient}_{int(time.time())}"
TransactionId(sender, recipient, t) == <<sender, recipient, IntTime(t)>>

\* f"reward_{new_index}_{int(time.time())}"
RewardId(new_index, t) == <<"reward", <<new_index, IntTime(t)>>>>

(***************************************************************************)
(* Wallet: RSA-PSS signing, modelled by the key that signed and the bytes  *)
(* that were signed                                                        *)
(***************************************************************************)
sign_transaction(wallet, tx) == <<wallet, tx_to_dict(tx)>>

verify_signature(wallet, tx, signature) ==
    signature = <<wallet, tx_to_dict(tx)>>

(***************************************************************************)
(* Block                                                                   *)
(***************************************************************************)
Block(index, timestamp, transactions, previous_hash, nonce, d, merkle_root, hash) ==
    [index |-> index, timestamp |-> timestamp, transactions |-> transactions,
     previous_hash |-> previous_hash, nonce |-> nonce,
     difficulty |-> d, merkle_root |-> merkle_root, hash |-> hash]

\* Block.calculate_hash: every field but the stored hash
calculate_hash(b) ==
    SHA256(<<b.index, b.timestamp,
             [i \in 1..Len(b.transactions) |-> tx_to_dict(b.transactions[i])],
             b.previous_hash, b.nonce, b.difficulty, b.merkle_root>>)

(***************************************************************************)
(* Blockchain: pure helpers                                                *)
(***************************************************************************)
\* one pass of the while loop of calculate_merkle_root over an even-sized level
RECURSIVE MerkleLevel(_)
MerkleLevel(tx_hashes) ==
    IF tx_hashes = << >> THEN << >>
    ELSE <<SHA256(<<tx_hashes[1], tx_hashes[2]>>)>>
             \o MerkleLevel(Tail(Tail(tx_hashes)))

RECURSIVE MerkleReduce(_)
MerkleReduce(tx_hashes) ==
    IF Len(tx_hashes) <= 1 THEN tx_hashes
    ELSE MerkleReduce(MerkleLevel(
             IF Len(tx_hashes) % 2 = 1
             THEN Append(tx_hashes, Last(tx_hashes))
             ELSE tx_hashes))

\* calculate_merkle_root hashing the set of the leaves, not their sequence
calculate_merkle_root_unordered(transactions) ==
    IF transactions = << >> THEN ZeroStr
    ELSE SHA256({tx_calculate_hash(transactions[i]) :
                     i \in 1..Len(transactions)})

\* Blockchain.calculate_merkle_root
calculate_merkle_root(transactions) ==
    IF transactions = << >> THEN ZeroStr
    ELSE MerkleReduce([i \in 1..Len(transactions) |->
                           tx_calculate_hash(transactions[i])])[1]

get_latest_block(c) == Last(c)

\* the loop body of get_balance with the debit left out
TxEffect_credit_only(tx, address) ==
    IF tx.recipient = address THEN tx.amount ELSE 0

\* the loop body of get_balance debiting no reward from "System"
TxEffect_reward_minted(tx, address) ==
    (IF tx.recipient = address THEN tx.amount ELSE 0)
        - (IF tx.sender = address /\ address # "System" THEN tx.amount ELSE 0)

\* what one transaction adds to the balance of address
TxEffect(tx, address) ==
    (IF tx.recipient = address THEN tx.amount ELSE 0)
        - (IF tx.sender = address THEN tx.amount ELSE 0)

RECURSIVE TxsEffect(_, _)
TxsEffect(txs, address) ==
    IF txs = << >> THEN 0
    ELSE TxEffect(txs[1], address) + TxsEffect(Tail(txs), address)

RECURSIVE ChainEffect(_, _)
ChainEffect(c, address) ==
    IF c = << >> THEN 0
    ELSE TxsEffect(c[1].transactions, address) + ChainEffect(Tail(c), address)

\* get_balance with the loop over the pending transactions left out
get_balance_chain_only(c, pending, address) == ChainEffect(c, address)

\* Blockchain.get_balance: every block, then the pending transactions
get_balance(c, pending, address) ==
    ChainEffect(c, address) + TxsEffect(pending, address)

\* is_valid_transaction with the loop over the pending transactions left out
is_valid_transaction_balance_only(c, pending, tx) ==
    IF tx.sender = "Genesis" THEN TRUE
    ELSE ChainEffect(c, tx.sender) + TxsEffect(pending, tx.sender) >= tx.amount

\* Blockchain.is_valid_transaction
is_valid_transaction(c, pending, tx) ==
    IF tx.sender = "Genesis" THEN TRUE
    ELSE IF get_balance(c, pending, tx.sender) < tx.amount THEN FALSE
    ELSE ~ \E i \in 1..Len(pending) :
               /\ pending[i].sender = tx.sender
               /\ pending[i].transaction_id # tx.transaction_id

\* the amounts credited to address over the whole chain
RECURSIVE Credited(_, _)
Credited(txs, address) ==
    IF txs = << >> THEN 0
    ELSE (IF txs[1].recipient = address THEN txs[1].amount ELSE 0)
             + Credited(Tail(txs), address)

RECURSIVE AllTransactions(_)
AllTransactions(c) ==
    IF c = << >> THEN << >> ELSE c[1].transactions \o AllTransactions(Tail(c))

\* Blockchain.update_utxo_set: a dict from each recipient to what it received
update_utxo_set(c) ==
    LET txs == AllTransactions(c)
    IN  [a \in {txs[i].recipient : i \in 1..Len(txs)} |-> Credited(txs, a)]

\* is_chain_valid with the recomputation of the hashes left out
is_chain_valid_no_rehash(c) ==
    \A i \in 2..Len(c) :
        /\ c[i].previous_hash = c[i - 1].hash
        /\ StartsWithZeros(c[i].hash, c[i].difficulty)

\* is_chain_valid with the check of the proof of work left out
is_chain_valid_no_pow(c) ==
    \A i \in 2..Len(c) :
        /\ calculate_hash(c[i]) = c[i].hash
        /\ c[i].previous_hash = c[i - 1].hash

\* Blockchain.is_chain_valid
is_chain_valid(c) ==
    \A i \in 2..Len(c) :
        /\ calculate_hash(c[i]) = c[i].hash
        /\ c[i].previous_hash = c[i - 1].hash
        /\ StartsWithZeros(c[i].hash, c[i].difficulty)

\* is_block_valid with the recomputation of the hash left out
is_block_valid_no_rehash(c, block) ==
    /\ block.previous_hash = get_latest_block(c).hash
    /\ StartsWithZeros(block.hash, block.difficulty)

\* Blockchain.is_block_valid
is_block_valid(c, block) ==
    /\ block.previous_hash = get_latest_block(c).hash
    /\ StartsWithZeros(block.hash, block.difficulty)
    /\ calculate_hash(block) = block.hash

\* the genesis block built by create_genesis_block at time t
create_genesis_block(d, t) ==
    LET g == Block(0, t, << >>, ZeroStr, 0, d, ZeroStr, None)
    IN  [g EXCEPT !.hash = calculate_hash(g)]

(***************************************************************************)
(* Blockchain.mine_block                                                   *)
(***************************************************************************)
\* a proof-of-work loop that breaks after its first iteration
ProofOfWork_first_nonce(new_block, n, targetDifficulty) == n

\* the proof-of-work loop: the first nonce from n on whose digest starts
\* with target
RECURSIVE ProofOfWork(_, _, _)
ProofOfWork(new_block, n, targetDifficulty) ==
    IF StartsWithZeros(calculate_hash([new_block EXCEPT !.nonce = n]),
                       targetDifficulty)
    THEN n
    ELSE ProofOfWork(new_block, n + 1, targetDifficulty)

\* the loop ends only if some digest starts with that many '0' characters
SearchTerminates(d) == d <= HashLen

\* the reward transaction of mine_block paying nothing to the miner
reward_transaction_unpaid(c, miner_address, t) ==
    Transaction("System", miner_address, 0,
                RewardId(get_latest_block(c).index + 1, t), t, None)

\* the reward transaction of mine_block
reward_transaction(c, miner_address, t) ==
    Transaction("System", miner_address, mining_reward,
                RewardId(get_latest_block(c).index + 1, t), t, None)

\* mine_block storing the hash it computed before the nonce search
mined_block_hash_before_search(c, pending, d, miner_address, t) ==
    LET previous_block == Last(c)
        all_transactions == pending \o <<reward_transaction(c, miner_address, t)>>
        new_block == Block(previous_block.index + 1, t, all_transactions,
                           calculate_hash(previous_block), 0, d,
                           calculate_merkle_root(all_transactions), None)
    IN  [new_block EXCEPT !.nonce = 1, !.hash = calculate_hash(new_block)]

\* the block mine_block appends
mined_block(c, pending, d, miner_address, t) ==
    LET previous_block == get_latest_block(c)
        new_index == previous_block.index + 1
        all_transactions == pending \o <<reward_transaction(c, miner_address, t)>>
        new_block == Block(new_index, t, all_transactions,
                           calculate_hash(previous_block), 0, d,
                           calculate_merkle_root(all_transactions), None)
        solved == [new_block EXCEPT !.nonce = ProofOfWork(new_block, 1, d)]
    IN  [solved EXCEPT !.hash = calculate_hash(solved)]

\* Blockchain.adjust_difficulty: the new difficulty
adjust_difficulty(c, d, last, current_time) ==
    IF Len(c) < 2 \/ last <= 0 THEN d
    ELSE LET time_diff == current_time - last
         IN  IF 2 * time_diff < target_block_time * TicksPerSec THEN d + 1
             ELSE IF time_diff > 2 * target_block_time * TicksPerSec
                  THEN (IF d - 1 > 1 THEN d - 1 ELSE 1)
                  ELSE d

\* Blockchain.adjust_difficulty: the new last_mining_time
adjust_last_mining_time(c, last, current_time) ==
    IF Len(c) < 2 THEN last ELSE current_time

(***************************************************************************)
(* The node: Blockchain.__init__ and its operations                        *)
(***************************************************************************)
\* the transactions the node holds
Held(c, pending) == Len(AllTransactions(c)) + Len(pending)

\* the calls that have started and not yet returned: the locals of a
\* mine_block in its proof-of-work loop, of a handle_chain_response that
\* is rebuilding the chain (<< >> when there is none) and of every
\* handle_new_block that has passed its test
NoThreads == [mining |-> << >>, adopting |-> << >>, handling |-> << >>]

\* the last call: its arguments, what it returned and what it printed
Ret(op, args, returned, printed) ==
    [op |-> op, args |-> args, returned |-> returned, printed |-> printed]

Init ==
    /\ now = TicksPerSec
    /\ difficulty \in {0, MaxInitDifficulty}
    /\ chain = <<create_genesis_block(difficulty, now)>>
    /\ pending_transactions = << >>
    /\ utxo_set = << >>
    /\ last_mining_time = 0
    /\ ret = Ret("__init__", << >>, "None", "")
    /\ threads = NoThreads
    /\ wallets = << >>
    /\ pkl = << >>
    /\ peers = {}
    /\ sockets = << >>

\* the wall clock advances
Tick ==
    /\ \E t \in ClockValues : t > now /\ now' = t
    /\ UNCHANGED <<chain, pending_transactions, difficulty, utxo_set,
                   last_mining_time, ret>>

\* the transaction add_transaction builds and signs
new_transaction(sender, recipient, amount, wallet, t) ==
    LET unsigned == Transaction(sender, recipient, amount,
                                TransactionId(sender, recipient, t), t, None)
    IN  [unsigned EXCEPT !.signature = sign_transaction(wallet, unsigned)]

\* the check of add_transaction that fails first ("" when none does)
add_transaction_failure(c, pending, sender, amount, wallet, transaction) ==
    IF sender # "Genesis" /\ get_balance(c, pending, sender) < amount
    THEN "Insufficient balance"
    ELSE IF ~ verify_signature(wallet, transaction, transaction.signature)
    THEN "Invalid transaction signature"
    ELSE IF ~ is_valid_transaction(c, pending, transaction)
    THEN "Double-spend detected!"
    ELSE ""

\* add_transaction appending the transaction before its checks
add_transaction_append_on_failure(sender, recipient, amount, wallet) ==
    LET transaction == new_transaction(sender, recipient, amount, wallet, now)
        failure == add_transaction_failure(chain, pending_transactions, sender,
                                           amount, wallet, transaction)
    IN  /\ Held(chain, pending_transactions) < MaxTransactions
        /\ pending_transactions' = Append(pending_transactions, transaction)
        /\ ret' = Ret("add_transaction", <<sender, recipient, amount, wallet>>,
                      IF failure = "" THEN "True" ELSE "False", failure)
        /\ UNCHANGED <<chain, difficulty, utxo_set, last_mining_time, now>>

\* Blockchain.add_transaction(sender, recipient, amount, wallet)
add_transaction(sender, recipient, amount, wallet) ==
    LET transaction == new_transaction(sender, recipient, amount, wallet, now)
        failure == add_transaction_failure(chain, pending_transactions, sender,
                                           amount, wallet, transaction)
    IN  /\ Held(chain, pending_transactions) < MaxTransactions
        /\ pending_transactions' =
               IF failure = "" THEN Append(pending_transactions, transaction)
               ELSE pending_transactions
        /\ ret' = Ret("add_transaction", <<sender, recipient, amount, wallet>>,
                      IF failure = "" THEN "True" ELSE "False", failure)
        /\ UNCHANGED <<chain, difficulty, utxo_set, last_mining_time, now>>

\* mine_block without its check for an empty mempool
mine_block_no_empty_check(miner_address) ==
    /\ Len(chain) < MaxChain
    /\ Held(chain, pending_transactions) < MaxTransactions
    /\ SearchTerminates(difficulty)
    /\ chain' = Append(chain, mined_block(chain, pending_transactions,
                                          difficulty, miner_address, now))
    /\ pending_transactions' = << >>
    /\ utxo_set' = update_utxo_set(chain')
    /\ difficulty' = adjust_difficulty(chain', difficulty, last_mining_time, now)
    /\ last_mining_time' = adjust_last_mining_time(chain', last_mining_time, now)
    /\ ret' = Ret("mine_block", <<miner_address>>, "Block", "Block mined!")
    /\ UNCHANGED now

\* Blockchain.mine_block(miner_address), run to completion
mine_block(miner_address) ==
    IF pending_transactions = << >>
    THEN /\ ret' = Ret("mine_block", <<miner_address>>, "None",
                    "No transactions to mine")
         /\ UNCHANGED <<chain, pending_transactions, difficulty, utxo_set,
                        last_mining_time, now>>
    ELSE /\ Len(chain) < MaxChain
         /\ Held(chain, pending_transactions) < MaxTransactions
         /\ SearchTerminates(difficulty)
         /\ chain' = Append(chain, mined_block(chain, pending_transactions,
                                               difficulty, miner_address, now))
         /\ pending_transactions' = << >>
         /\ utxo_set' = update_utxo_set(chain')
         /\ difficulty' = adjust_difficulty(chain', difficulty,
                                            last_mining_time, now)
         /\ last_mining_time' = adjust_last_mining_time(chain', last_mining_time,
                                                        now)
         /\ ret' = Ret("mine_block", <<miner_address>>, "Block", "Block mined!")
         /\ UNCHANGED now

\* the wallet the callers sign with: the sender's own, and for the privileged
\* sender "Genesis", which has none, the recipient's
WalletOf(sender, recipient) == IF sender \in Wallets THEN sender ELSE recipient

Next ==
    \/ Tick /\ UNCHANGED rest
    \/ \E sender \in Senders, recipient \in Wallets, amount \in Amounts :
           /\ add_transaction(sender, recipient, amount,
                              WalletOf(sender, recipient))
           /\ UNCHANGED rest
    \/ \E miner_address \in Wallets :
           mine_block(miner_address) /\ UNCHANGED rest

\* a node that only serves local calls
Spec == Init /\ [][Next]_vars

\* the amount demo_double_spend_prevention gives to Alice
DemoAmounts == {100}
\* the addresses blocks are mined for: a wallet that also receives coins, and
\* one that does not
DemoMiners == {"Alice", "Charlie"}

NextDemo ==
    \/ Tick /\ UNCHANGED rest
    \/ \E sender \in Senders, recipient \in Wallets, amount \in DemoAmounts :
           /\ add_transaction(sender, recipient, amount,
                              WalletOf(sender, recipient))
           /\ UNCHANGED rest
    \/ \E miner_address \in DemoMiners :
           mine_block(miner_address) /\ UNCHANGED rest

\* the calls of demo.py: coins are given out of "Genesis", passed on and
\* mined, by any miner
SpecDemo == Init /\ [][NextDemo]_vars

(***************************************************************************)
(* P2PNode: the handlers of inbound messages                               *)
(***************************************************************************)
\* Every inbound message goes through process_message, which returns nothing;
\* ret keeps what the handler printed ("" when it ignored the message).

\* validate_received_chain with the check of the indices left out
validate_received_chain_links_only(chain_data) ==
    /\ chain_data # << >>
    /\ chain_data[1].index = 0
    /\ chain_data[1].previous_hash = ZeroStr
    /\ \A i \in 2..Len(chain_data) :
           chain_data[i].previous_hash = chain_data[i - 1].hash

\* P2PNode.validate_received_chain
validate_received_chain(chain_data) ==
    IF chain_data = << >> THEN FALSE
    ELSE IF chain_data[1].index # 0 \/ chain_data[1].previous_hash # ZeroStr
    THEN FALSE
    ELSE \A i \in 2..Len(chain_data) :
             /\ chain_data[i].previous_hash = chain_data[i - 1].hash
             /\ chain_data[i].index = chain_data[i - 1].index + 1

\* handle_chain_response without its comparison of the lengths
handle_chain_response_any_length(chain_data) ==
    LET adopt == validate_received_chain(chain_data)
    IN  /\ chain' = IF adopt THEN chain_data ELSE chain
        /\ utxo_set' = IF adopt THEN update_utxo_set(chain_data) ELSE utxo_set
        /\ ret' = Ret("process_message", << >>, "None",
                      IF adopt THEN "Updated blockchain from peer" ELSE "")
        /\ UNCHANGED <<pending_transactions, difficulty, last_mining_time, now>>

\* P2PNode.handle_chain_response, run to completion
handle_chain_response(chain_data) ==
    LET adopt == /\ Len(chain_data) > Len(chain)
                 /\ validate_received_chain(chain_data)
    IN  /\ chain' = IF adopt THEN chain_data ELSE chain
        /\ utxo_set' = IF adopt THEN update_utxo_set(chain_data) ELSE utxo_set
        /\ ret' = Ret("process_message", << >>, "None",
                      IF adopt THEN "Updated blockchain from peer" ELSE "")
        /\ UNCHANGED <<pending_transactions, difficulty, last_mining_time, now>>

\* handle_new_transaction without its search for the transaction_id
handle_new_transaction_no_dedup(transaction) ==
    /\ pending_transactions' = Append(pending_transactions, transaction)
    /\ ret' = Ret("process_message", << >>, "None",
                  "Received new transaction from peer")
    /\ UNCHANGED <<chain, difficulty, utxo_set, last_mining_time, now>>

\* P2PNode.handle_new_transaction
handle_new_transaction(transaction) ==
    LET known == \E i \in 1..Len(pending_transactions) :
                     pending_transactions[i].transaction_id
                         = transaction.transaction_id
    IN  /\ pending_transactions' =
               IF known THEN pending_transactions
               ELSE Append(pending_transactions, transaction)
        /\ ret' = Ret("process_message", << >>, "None",
                      IF known THEN "" ELSE "Received new transaction from peer")
        /\ UNCHANGED <<chain, difficulty, utxo_set, last_mining_time, now>>

\* Blockchain.add_block: the chain afterwards
add_block(c, block) == IF is_block_valid(c, block) THEN Append(c, block) ELSE c

\* handle_new_block keeping every pending transaction
NotInBlock_keep_all(pending, block) == pending

\* the pending transactions handle_new_block keeps
RECURSIVE NotInBlock(_, _)
NotInBlock(pending, block) ==
    IF pending = << >> THEN << >>
    ELSE (IF \E i \in 1..Len(block.transactions) :
                 block.transactions[i].transaction_id
                     = pending[1].transaction_id
          THEN << >> ELSE <<pending[1]>>) \o NotInBlock(Tail(pending), block)

\* P2PNode.handle_new_block, run to completion
handle_new_block(block) ==
    LET accept == /\ is_block_valid(chain, block)
                  /\ block.previous_hash = get_latest_block(chain).hash
    IN  /\ chain' = IF accept THEN add_block(chain, block) ELSE chain
        /\ utxo_set' = IF accept /\ is_block_valid(chain, block)
                       THEN update_utxo_set(chain') ELSE utxo_set
        /\ pending_transactions' =
               IF accept THEN NotInBlock(pending_transactions, block)
               ELSE pending_transactions
        /\ ret' = Ret("process_message", << >>, "None",
                      IF accept THEN "Received new block from peer" ELSE "")
        /\ UNCHANGED <<difficulty, last_mining_time, now>>

(***************************************************************************)
(* What peers send                                                         *)
(***************************************************************************)
\* a transaction a peer announces: signed elsewhere, never seen locally
PeerTransaction(k) ==
    Transaction("Bob", "Alice", 30, <<"Bob", "Alice", k>>, k * TicksPerSec,
                <<"Bob", <<"Bob", "Alice", 30, <<"Bob", "Alice", k>>,
                           k * TicksPerSec>>>>)

PeerTransactionIds == {1}

\* a block a peer built on the block prev: mined as mine_block mines, then
\* altered as flaw says
PeerBlock(prev, k, d, flaw) ==
    LET good == mined_block(<<prev>>, <<PeerTransaction(k)>>, d, "Bob",
                            TicksPerSec)
    IN  CASE flaw = "none" -> good
          [] flaw = "stored_hash" ->
                 [good EXCEPT !.hash = calculate_hash([good EXCEPT !.nonce = 0])]
          [] flaw = "unsolved" ->
                 LET b == [good EXCEPT !.difficulty = HashLen + 1]
                 IN  [b EXCEPT !.hash = calculate_hash(b)]
          [] flaw = "link" -> [good EXCEPT !.previous_hash = ZeroStr]
          [] flaw = "index" ->
                 LET b == [good EXCEPT !.index = prev.index + 2]
                     n == ProofOfWork(b, 1, d)
                 IN  [b EXCEPT !.nonce = n,
                               !.hash = calculate_hash([b EXCEPT !.nonce = n])]

BlockFlaws == {"none", "stored_hash", "unsolved", "link", "index"}

\* the blocks peers announce to a node whose chain is c
PeerBlocks(c) ==
    {PeerBlock(get_latest_block(c), Len(c), d, flaw) :
         d \in {0, MaxInitDifficulty}, flaw \in BlockFlaws}

\* a chain of n blocks a peer sends: its own genesis block and blocks linked
\* through the stored hashes, every block altered as flaw says
RECURSIVE PeerChain(_, _)
PeerChain(n, flaw) ==
    IF n = 0 THEN << >>
    ELSE IF n = 1
    THEN <<IF flaw = "link"
           THEN [create_genesis_block(MaxInitDifficulty, TicksPerSec)
                     EXCEPT !.previous_hash = SHA256(ZeroStr)]
           ELSE IF flaw = "index"
           THEN [create_genesis_block(MaxInitDifficulty, TicksPerSec)
                     EXCEPT !.index = 1]
           ELSE create_genesis_block(MaxInitDifficulty, TicksPerSec)>>
    ELSE LET shorter == PeerChain(n - 1, IF flaw \in {"link", "index"}
                                         THEN "none" ELSE flaw)
             made == PeerBlock(Last(shorter), n - 1, MaxInitDifficulty, flaw)
         IN  Append(shorter,
                    IF flaw = "stored_hash"
                    THEN [made EXCEPT !.previous_hash = Last(shorter).hash]
                    ELSE made)

\* the chains peers send
PeerChains == {PeerChain(n, flaw) : n \in 0..MaxChain, flaw \in BlockFlaws}

\* the local calls made on a node that also serves peers
NetSenders == {"Genesis"}
NetRecipients == {"Alice"}
NetMiners == {"Alice"}
NetClockValues == {TicksPerSec, TicksPerSec + 1}

NextNet ==
    \/ \E sender \in NetSenders, recipient \in NetRecipients, amount \in Amounts :
           /\ add_transaction(sender, recipient, amount,
                              WalletOf(sender, recipient))
           /\ UNCHANGED rest
    \/ \E miner_address \in NetMiners :
           mine_block(miner_address) /\ UNCHANGED rest
    \/ \E k \in PeerTransactionIds :
           /\ Held(chain, pending_transactions) < MaxTransactions
           /\ handle_new_transaction(PeerTransaction(k))
           /\ UNCHANGED rest
    \/ \E block \in PeerBlocks(chain) :
           /\ Len(chain) < MaxChain
           /\ handle_new_block(block)
           /\ UNCHANGED rest
    \/ \E chain_data \in PeerChains :
           handle_chain_response(chain_data) /\ UNCHANGED rest

\* a node that serves local calls and inbound peer messages, one at a time,
\* all within one tick of the clock
SpecNet == Init /\ [][NextNet]_vars

\* the amounts a caller of add_transaction passes: the method takes any
\* float (only the menu of main.py refuses amount <= 0 before the call)
AnyAmounts == {-30, 30}
AnySenders == {"Genesis", "Alice"}

NextAmounts ==
    \/ \E sender \in AnySenders, recipient \in Wallets, amount \in AnyAmounts :
           /\ add_transaction(sender, recipient, amount,
                              WalletOf(sender, recipient))
           /\ UNCHANGED rest
    \/ \E miner_address \in NetMiners :
           mine_block(miner_address) /\ UNCHANGED rest

\* a node whose add_transaction is called with amounts of either sign
SpecAmounts == Init /\ [][NextAmounts]_vars

\* Blockchain(difficulty=d) for every difficulty the nonce search reaches
InitAdjust ==
    /\ now = TicksPerSec
    /\ difficulty \in 0..HashLen
    /\ chain = <<create_genesis_block(difficulty, now)>>
    /\ pending_transactions = << >>
    /\ utxo_set = << >>
    /\ last_mining_time = 0
    /\ ret = Ret("__init__", << >>, "None", "")
    /\ threads = NoThreads
    /\ wallets = << >>
    /\ pkl = << >>
    /\ peers = {}
    /\ sockets = << >>

NextAdjust ==
    \/ Tick /\ UNCHANGED rest
    \/ \E sender \in NetSenders, recipient \in NetRecipients, amount \in Amounts :
           /\ add_transaction(sender, recipient, amount,
                              WalletOf(sender, recipient))
           /\ UNCHANGED rest
    \/ \E miner_address \in NetMiners :
           mine_block(miner_address) /\ UNCHANGED rest

\* a node started at any difficulty, mining at the instants of the clock
SpecAdjust == InitAdjust /\ [][NextAdjust]_vars

(***************************************************************************)
(* A node whose callers sign with any wallet and whose peers also announce *)
(* unsigned transactions and blocks without transactions, with the         *)
(* validator queried between the calls                                     *)
(***************************************************************************)
\* Blockchain.is_block_valid(block), called on its own
call_is_block_valid(block) ==
    /\ ret' = Ret("is_block_valid", << >>,
                  IF is_block_valid(chain, block) THEN "True" ELSE "False", "")
    /\ UNCHANGED <<chain, pending_transactions, difficulty, utxo_set,
                   last_mining_time, now>>

\* step 3 of demonstrate_immutability changing nothing
tampered_chain_untouched(c) == c

\* demonstrate_immutability, step 3: the amount of the first transaction of
\* block #1 is raised by one coin, if the block has a transaction
tampered_chain(c) ==
    IF c[2].transactions # << >>
    THEN [c EXCEPT ![2].transactions[1].amount = @ + 1]
    ELSE c

\* demonstrate_immutability, step 7: the original amount and the original
\* stored hash are written back into the tampered chain
restored_chain(c, tampered) ==
    LET amount_back ==
            IF tampered[2].transactions # << >>
            THEN [tampered EXCEPT ![2].transactions[1].amount =
                                      c[2].transactions[1].amount]
            ELSE tampered
    IN  [amount_back EXCEPT ![2].hash = c[2].hash]

\* Blockchain.demonstrate_immutability, run to completion
demonstrate_immutability ==
    IF Len(chain) < 2
    THEN /\ ret' = Ret("demonstrate_immutability", << >>, "False",
                       "Need at least 2 blocks to demonstrate immutability")
         /\ UNCHANGED <<chain, pending_transactions, difficulty, utxo_set,
                        last_mining_time, now>>
    ELSE LET tampered == tampered_chain(chain)
             chain_valid == is_chain_valid(tampered)
         IN  /\ chain' = restored_chain(chain, tampered)
             /\ ret' = Ret("demonstrate_immutability", << >>,
                           IF ~ chain_valid THEN "True" ELSE "False",
                           "IMMUTABILITY DEMONSTRATION COMPLETE")
             /\ UNCHANGED <<pending_transactions, difficulty, utxo_set,
                            last_mining_time, now>>

\* the transactions peers announce: one signed, and one unsigned, of
\* another amount, under the same transaction_id
RelayPeerTransactions ==
    {PeerTransaction(1),
     [PeerTransaction(1) EXCEPT !.signature = None, !.amount = 1]}

\* a block without transactions a peer built on the block prev, hashed and
\* solved
PeerEmptyBlock(prev, d) ==
    LET b == Block(prev.index + 1, TicksPerSec, << >>, prev.hash, 0, d,
                   ZeroStr, None)
        solved == [b EXCEPT !.nonce = ProofOfWork(b, 1, d)]
    IN  [solved EXCEPT !.hash = calculate_hash(solved)]

\* the blocks peers announce to a node whose chain is c
RelayPeerBlocks(c) ==
    PeerBlocks(c) \cup {PeerEmptyBlock(get_latest_block(c), MaxInitDifficulty)}

\* the local calls: sender, recipient and the wallet that signs, which for
\* the sender "Alice" is not her own
RelayTransfers == {<<"Genesis", "Alice", "Alice">>, <<"Alice", "Bob", "Bob">>}

NextRelay ==
    \/ \E transfer \in RelayTransfers, amount \in Amounts :
           /\ add_transaction(transfer[1], transfer[2], amount, transfer[3])
           /\ UNCHANGED rest
    \/ \E miner_address \in NetMiners :
           mine_block(miner_address) /\ UNCHANGED rest
    \/ \E transaction \in RelayPeerTransactions :
           /\ Held(chain, pending_transactions) < MaxTransactions
           /\ handle_new_transaction(transaction)
           /\ UNCHANGED rest
    \/ \E block \in RelayPeerBlocks(chain) :
           /\ Len(chain) < MaxChain
           /\ handle_new_block(block)
           /\ UNCHANGED rest

\* a node that serves local calls signed with any wallet and the
\* announcements of its peers, one at a time
SpecRelay == Init /\ [][NextRelay]_vars

NextAudit ==
    \/ \E sender \in NetSenders, recipient \in NetRecipients, amount \in Amounts :
           /\ add_transaction(sender, recipient, amount,
                              WalletOf(sender, recipient))
           /\ UNCHANGED rest
    \/ \E miner_address \in NetMiners :
           mine_block(miner_address) /\ UNCHANGED rest
    \/ \E block \in RelayPeerBlocks(chain) :
           /\ Len(chain) < MaxChain
           /\ handle_new_block(block)
           /\ UNCHANGED rest
    \/ \E block \in RelayPeerBlocks(chain) :
           call_is_block_valid(block) /\ UNCHANGED rest
    \/ demonstrate_immutability /\ UNCHANGED rest

\* a node that serves local calls and block announcements and whose
\* validator is queried between them
SpecAudit == Init /\ [][NextAudit]_vars

(***************************************************************************)
(* The main thread and the handler threads of P2PNode, interleaved: no     *)
(* method takes a lock, so a handler runs between any two statements of    *)
(* mine_block and of handle_chain_response                                 *)
(***************************************************************************)
\* mine_block up to the start of its nonce search: the mempool is copied
\* into the block under construction (get_latest_block raises IndexError on
\* an empty chain, and the call ends there)
mine_block_begin(miner_address) ==
    /\ threads.mining = << >>
    /\ pending_transactions # << >>
    /\ Len(chain) < MaxChain
    /\ Held(chain, pending_transactions) < MaxTransactions
    /\ SearchTerminates(difficulty)
    /\ IF chain = << >>
       THEN /\ ret' = Ret("mine_block", <<miner_address>>, "IndexError", "")
            /\ UNCHANGED rest
       ELSE LET previous_block == get_latest_block(chain)
                all_transactions ==
                    pending_transactions
                        \o <<reward_transaction(chain, miner_address, now)>>
                new_block == Block(previous_block.index + 1, now,
                                   all_transactions,
                                   calculate_hash(previous_block), 0, difficulty,
                                   calculate_merkle_root(all_transactions), None)
            IN  /\ threads' = [threads EXCEPT !.mining =
                                   <<[miner_address |-> miner_address,
                                      new_block |-> new_block]>>]
                /\ UNCHANGED ret
    /\ UNCHANGED <<chain, pending_transactions, difficulty, utxo_set,
                   last_mining_time, now>>

\* mine_block from the end of its nonce search: the block is appended and
\* the mempool is replaced by an empty list
mine_block_end ==
    /\ threads.mining # << >>
    /\ LET new_block == threads.mining[1].new_block
           solved == [new_block EXCEPT
                          !.nonce = ProofOfWork(new_block, 1,
                                                new_block.difficulty)]
       IN  chain' = Append(chain, [solved EXCEPT !.hash = calculate_hash(solved)])
    /\ pending_transactions' = << >>
    /\ utxo_set' = update_utxo_set(chain')
    /\ difficulty' = adjust_difficulty(chain', difficulty, last_mining_time, now)
    /\ last_mining_time' = adjust_last_mining_time(chain', last_mining_time, now)
    /\ ret' = Ret("mine_block", <<threads.mining[1].miner_address>>, "Block",
                  "Block mined!")
    /\ threads' = [threads EXCEPT !.mining = << >>]
    /\ UNCHANGED now

\* handle_chain_response up to the assignment of an empty list to the chain
handle_chain_response_begin(chain_data) ==
    /\ threads.adopting = << >>
    /\ IF Len(chain_data) > Len(chain) /\ validate_received_chain(chain_data)
       THEN /\ chain' = << >>
            /\ threads' = [threads EXCEPT !.adopting =
                               <<[old |-> chain, chain_data |-> chain_data,
                                  next |-> 1]>>]
            /\ UNCHANGED ret
       ELSE /\ ret' = Ret("process_message", << >>, "None", "")
            /\ UNCHANGED <<chain, threads>>
    /\ UNCHANGED <<pending_transactions, difficulty, utxo_set,
                   last_mining_time, now>>

\* handle_chain_response: one round of its loop appends the next block
handle_chain_response_append ==
    /\ threads.adopting # << >>
    /\ LET adopting == threads.adopting[1]
       IN  /\ adopting.next <= Len(adopting.chain_data)
           /\ chain' = Append(chain, adopting.chain_data[adopting.next])
           /\ threads' = [threads EXCEPT !.adopting[1].next = @ + 1]
    /\ UNCHANGED <<pending_transactions, difficulty, utxo_set,
                   last_mining_time, now, ret>>

\* handle_chain_response after its loop
handle_chain_response_end ==
    /\ threads.adopting # << >>
    /\ threads.adopting[1].next > Len(threads.adopting[1].chain_data)
    /\ utxo_set' = update_utxo_set(chain)
    /\ ret' = Ret("process_message", << >>, "None",
                  "Updated blockchain from peer")
    /\ threads' = [threads EXCEPT !.adopting = << >>]
    /\ UNCHANGED <<chain, pending_transactions, difficulty, last_mining_time,
                   now>>

\* P2PNode.send_chain: args holds the chain it read and sent to the peer
send_chain ==
    /\ ret' = Ret("send_chain", <<chain>>, "None", "")
    /\ UNCHANGED <<chain, pending_transactions, difficulty, utxo_set,
                   last_mining_time, now>>

\* the valid chains peers send to a node with running threads
ThreadPeerChains == {PeerChain(n, "none") : n \in 1..MaxChain}

\* the main thread makes one call at a time; the handler threads run at any
\* moment
NextThreads ==
    \/ \E sender \in NetSenders, recipient \in NetRecipients, amount \in Amounts :
           /\ threads.mining = << >>
           /\ add_transaction(sender, recipient, amount,
                              WalletOf(sender, recipient))
           /\ UNCHANGED rest
    \/ \E miner_address \in NetMiners :
           /\ mine_block_begin(miner_address)
           /\ UNCHANGED <<wallets, pkl, peers, sockets>>
    \/ mine_block_end /\ UNCHANGED <<wallets, pkl, peers, sockets>>
    \/ \E k \in PeerTransactionIds :
           /\ Held(chain, pending_transactions) < MaxTransactions
           /\ handle_new_transaction(PeerTransaction(k))
           /\ UNCHANGED rest
    \/ \E chain_data \in ThreadPeerChains :
           /\ handle_chain_response_begin(chain_data)
           /\ UNCHANGED <<wallets, pkl, peers, sockets>>
    \/ handle_chain_response_append
           /\ UNCHANGED <<wallets, pkl, peers, sockets>>
    \/ handle_chain_response_end /\ UNCHANGED <<wallets, pkl, peers, sockets>>
    \/ send_chain /\ UNCHANGED rest

\* a node whose main thread mines while its handler threads serve peers, all
\* within one tick of the clock
SpecThreads == Init /\ [][NextThreads]_vars

(***************************************************************************)
(* P2PNode: the peer set, and the connections the nodes open to each other *)
(***************************************************************************)
\* An address "host:port" is the host and the text after the colon, a
\* sequence of decimal digits; an endpoint is the pair a socket connects to,
\* host and port number.

\* the node main.py starts: P2PNode("localhost", 5000, blockchain)
host == "localhost"
port == 5000

\* the text of a number, as an f-string formats it
RECURSIVE str(_)
str(n) == IF n < 10 THEN <<n>> ELSE Append(str(n \div 10), n % 10)

\* Python's int(text); -1 stands for the ValueError int() raises on an empty text
RECURSIVE int(_)
int(text) ==
    IF text = << >> THEN -1
    ELSE IF Len(text) = 1 THEN text[1]
    ELSE 10 * int(SubSeq(text, 1, Len(text) - 1)) + text[Len(text)]

Address(h, text) == [host |-> h, port |-> text]

\* f"{self.host}:{self.port}"
OwnAddress == Address(host, str(port))

\* the endpoint the node listens on
OwnEndpoint == <<host, port>>

\* host, port = peer.split(':'); port = int(port)
ParseAddress(peer) == <<peer.host, int(peer.port)>>

\* the port the system gives to an outgoing socket: no listener is bound to it
EphemeralPort == 49152

\* the endpoints of the other nodes, each listening or not
RemoteEndpoints == {<<host, port + 1>>, <<host, port + 2>>}

\* client_socket.connect succeeds: the address parses, and a node listens
\* on the endpoint (this node listens on its own since start())
Connects(peer, up) ==
    /\ int(peer.port) # -1
    /\ ParseAddress(peer) \in up \cup {OwnEndpoint}

\* one message on its way: who sent it, the endpoint it was sent to, the
\* endpoint of the socket it was sent from, and the JSON object
Message(sender, to, type, body) ==
    [sender |-> sender, to |-> to, from |-> <<host, EphemeralPort>>,
     type |-> type, body |-> body]

\* the orders in which a for loop may iterate over the set S
Orders(S) ==
    {order \in [1..Cardinality(S) -> S] :
         \A i, j \in 1..Cardinality(S) : i # j => order[i] # order[j]}

\* s without its i-th element
RemoveAt(s, i) == SubSeq(s, 1, i - 1) \o SubSeq(s, i + 1, Len(s))

\* P2PNode.add_peer
add_peer(peer_address) ==
    /\ peers' = IF peer_address # OwnAddress THEN peers \cup {peer_address}
                ELSE peers
    /\ ret' = Ret("add_peer", <<peer_address>>, "None",
                  IF peer_address # OwnAddress THEN "Added peer" ELSE "")
    /\ UNCHANGED <<chain, pending_transactions, difficulty, utxo_set,
                   last_mining_time, now, threads, wallets, pkl, sockets>>

\* P2PNode.remove_peer
remove_peer(peer_address) ==
    /\ peers' = peers \ {peer_address}
    /\ ret' = Ret("remove_peer", <<peer_address>>, "None", "Removed peer")
    /\ UNCHANGED <<chain, pending_transactions, difficulty, utxo_set,
                   last_mining_time, now, threads, wallets, pkl, sockets>>

\* the for loop of broadcast_message from position i of its iteration order:
\* the endpoints it sent to, the peer it removed, and whether it raised.
\* remove_peer discards from the set the loop is iterating over, and the
\* next step of the iterator raises RuntimeError (Set changed size during
\* iteration), outside the try block.
RECURSIVE broadcast_loop(_, _, _)
broadcast_loop(order, i, up) ==
    IF i > Len(order)
    THEN [sent |-> << >>, removed |-> {}, raised |-> FALSE]
    ELSE IF Connects(order[i], up)
    THEN LET later == broadcast_loop(order, i + 1, up)
         IN  [later EXCEPT !.sent = <<ParseAddress(order[i])>> \o @]
    ELSE [sent |-> << >>, removed |-> {order[i]}, raised |-> TRUE]

\* P2PNode.broadcast_message, the loop iterating in the given order while
\* the endpoints in up are listening
broadcast_message(type, body, order, up) ==
    LET run == broadcast_loop(order, 1, up)
    IN  /\ peers' = peers \ run.removed
        /\ sockets' = sockets \o [i \in 1..Len(run.sent) |->
                                     Message("self", run.sent[i], type, body)]
        /\ ret' = Ret("broadcast_message", <<type, order, up>>,
                      IF run.raised THEN "RuntimeError" ELSE "None",
                      IF run.removed # {} THEN "Failed to send message" ELSE "")
        /\ UNCHANGED <<chain, pending_transactions, difficulty, utxo_set,
                       last_mining_time, now, threads, wallets, pkl>>

\* P2PNode.broadcast_transaction
broadcast_transaction(transaction, order, up) ==
    broadcast_message("new_transaction", transaction, order, up)

\* P2PNode.discover_peers
discover_peers(order, up) ==
    broadcast_message("peer_discovery", <<OwnAddress>>, order, up)

\* P2PNode.request_chain: the message it sends, if the connection succeeds
request_chain(peer_address, up) ==
    IF Connects(peer_address, up)
    THEN <<Message("self", ParseAddress(peer_address), "chain_request", << >>)>>
    ELSE << >>

\* the messages of the loop of sync_with_network over order
RECURSIVE sync_loop(_, _)
sync_loop(order, up) ==
    IF order = << >> THEN << >>
    ELSE request_chain(order[1], up) \o sync_loop(Tail(order), up)

\* P2PNode.sync_with_network
sync_with_network(order, up) ==
    /\ sockets' = sockets \o sync_loop(order, up)
    /\ ret' = Ret("sync_with_network", <<order, up>>, "None",
                  IF \E i \in 1..Len(order) : ~ Connects(order[i], up)
                  THEN "Failed to request chain" ELSE "")
    /\ UNCHANGED <<chain, pending_transactions, difficulty, utxo_set,
                   last_mining_time, now, threads, wallets, pkl, peers>>

\* P2PNode.send_chain(address): the reply goes to the endpoint the request
\* came from, the address accept() returned
send_chain_to(address, i) ==
    /\ sockets' = RemoveAt(sockets, i)
                      \o (IF address = OwnEndpoint
                          THEN <<Message("self", address, "chain_response",
                                         chain)>>
                          ELSE << >>)
    /\ ret' = Ret("process_message", <<"chain_request">>, "None",
                  IF address = OwnEndpoint THEN ""
                  ELSE "Failed to send chain")
    /\ UNCHANGED <<chain, pending_transactions, difficulty, utxo_set,
                   last_mining_time, now, threads, wallets, pkl, peers>>

\* P2PNode.handle_peer_discovery
handle_peer_discovery(discovered) ==
    /\ peers' = peers \cup {discovered[i] : i \in
                                {j \in 1..Len(discovered) :
                                     discovered[j] # OwnAddress}}
    /\ ret' = Ret("process_message", <<"peer_discovery">>, "None",
                  IF \E j \in 1..Len(discovered) : discovered[j] # OwnAddress
                  THEN "Added peer" ELSE "")
    /\ UNCHANGED <<chain, pending_transactions, difficulty, utxo_set,
                   last_mining_time, now>>

\* handle_client_connection and process_message: the i-th message on its
\* way has reached this node's listening socket
process_message(i) ==
    LET message == sockets[i]
    IN  /\ message.to = OwnEndpoint
        /\ CASE message.type = "new_transaction" ->
                    /\ handle_new_transaction(message.body)
                    /\ sockets' = RemoveAt(sockets, i)
                    /\ UNCHANGED <<threads, wallets, pkl, peers>>
             [] message.type = "chain_response" ->
                    /\ handle_chain_response(message.body)
                    /\ sockets' = RemoveAt(sockets, i)
                    /\ UNCHANGED <<threads, wallets, pkl, peers>>
             [] message.type = "peer_discovery" ->
                    /\ handle_peer_discovery(message.body)
                    /\ sockets' = RemoveAt(sockets, i)
                    /\ UNCHANGED <<threads, wallets, pkl>>
             [] message.type = "chain_request" ->
                    send_chain_to(message.from, i)

\* most messages on their way at a time
MaxSockets == 2

\* the addresses typed into add_peer or announced by peers: two other
\* nodes, this node's own address, and its own address with the port
\* written with a leading zero
PeerAddresses ==
    {Address(host, str(port + 1)), Address(host, str(port + 2)), OwnAddress,
     Address(host, <<0>> \o str(port))}

\* the addresses peers announce in peer_discovery messages
AnnouncedAddresses == {Address(host, str(port + 1)), OwnAddress}

\* the chain of the node listening on port + 1
SyncPeerChain == PeerChain(MaxChain, "none")

\* another node handles the i-th message, which has reached its listening
\* socket; it runs the same process_message, and answers a chain_request
\* with send_chain to the endpoint the request came from
peer_process_message(i) ==
    LET message == sockets[i]
    IN  /\ message.to \in RemoteEndpoints
        /\ sockets' = RemoveAt(sockets, i)
                          \o (IF /\ message.type = "chain_request"
                                 /\ message.from = OwnEndpoint
                              THEN <<Message("peer", message.from,
                                             "chain_response", SyncPeerChain)>>
                              ELSE << >>)
        /\ UNCHANGED <<chain, pending_transactions, difficulty, utxo_set,
                       last_mining_time, now, ret, threads, wallets, pkl,
                       peers>>

\* another node broadcasts a transaction, or announces an address, to this
\* node
peer_sends(type, body) ==
    /\ Len(sockets) < MaxSockets
    /\ sockets' = Append(sockets, Message("peer", OwnEndpoint, type, body))
    /\ UNCHANGED <<chain, pending_transactions, difficulty, utxo_set,
                   last_mining_time, now, ret, threads, wallets, pkl, peers>>

NextPeers ==
    \/ \E sender \in NetSenders, recipient \in NetRecipients, amount \in Amounts :
           /\ pending_transactions = << >>
           /\ add_transaction(sender, recipient, amount,
                              WalletOf(sender, recipient))
           /\ UNCHANGED rest
    \/ \E peer_address \in PeerAddresses : add_peer(peer_address)
    \/ \E peer_address \in peers : remove_peer(peer_address)
    \/ \E i \in 1..Len(pending_transactions), order \in Orders(peers),
          up \in SUBSET RemoteEndpoints :
           /\ Len(sockets) + Cardinality(peers) <= MaxSockets
           /\ broadcast_transaction(pending_transactions[i], order, up)
    \/ \E order \in Orders(peers), up \in SUBSET RemoteEndpoints :
           /\ Len(sockets) + Cardinality(peers) <= MaxSockets
           /\ discover_peers(order, up)
    \/ \E order \in Orders(peers), up \in SUBSET RemoteEndpoints :
           /\ Len(sockets) + Cardinality(peers) <= MaxSockets
           /\ sync_with_network(order, up)
    \/ \E i \in 1..Len(sockets) : process_message(i)
    \/ \E i \in 1..Len(sockets) : peer_process_message(i)
    \/ \E k \in PeerTransactionIds :
           peer_sends("new_transaction", PeerTransaction(k))
    \/ \E peer_address \in AnnouncedAddresses :
           peer_sends("peer_discovery", <<peer_address>>)

\* a node with a peer set, broadcasting to its peers and served by them,
\* all within one tick of the clock
SpecPeers == Init /\ [][NextPeers]_vars

NextSync ==
    \/ \E sender \in NetSenders, recipient \in NetRecipients, amount \in Amounts :
           /\ add_transaction(sender, recipient, amount,
                              WalletOf(sender, recipient))
           /\ UNCHANGED rest
    \/ \E miner_address \in NetMiners :
           mine_block(miner_address) /\ UNCHANGED rest
    \/ \E peer_address \in PeerAddresses : add_peer(peer_address)
    \/ \E order \in Orders(peers), up \in SUBSET RemoteEndpoints :
           /\ Len(sockets) + Cardinality(peers) <= MaxSockets
           /\ sync_with_network(order, up)
    \/ \E i \in 1..Len(sockets) : process_message(i)
    \/ \E i \in 1..Len(sockets) : peer_process_message(i)

\* a node that asks its peers for their chains; every message that has
\* reached a listening socket is eventually handled
SpecSync ==
    /\ Init /\ [][NextSync]_vars
    /\ WF_vars(\E i \in 1..Len(sockets) : process_message(i))
    /\ WF_vars(\E i \in 1..Len(sockets) : peer_process_message(i))

(***************************************************************************)
(* Wallets and persistence: pickle.dump(self) and pickle.load              *)
(***************************************************************************)
\* number of key pairs rsa.generate_private_key chooses from
MaxKeys == 2

\* the key pairs rsa.generate_private_key can return
Keys == {<<k>> : k \in 1..MaxKeys}

\* Wallet.__init__ with the key pair it generated: the PEM text is that of
\* the public key of the pair
Wallet(name, key) ==
    [name |-> name, private_key |-> key, public_key_pem |-> key]

\* Wallet.__getstate__: the key objects are replaced by None, the PEM text
\* stays
Wallet_getstate(wallet) == [wallet EXCEPT !.private_key = None]

\* Wallet.__setstate__: a new key pair is generated and its PEM text
\* replaces the saved one
Wallet_setstate(state, key) ==
    [state EXCEPT !.private_key = key, !.public_key_pem = key]

\* BlockchainCLI.create_wallet
create_wallet(wallet_name, key) ==
    /\ wallets' = IF wallet_name \in DOMAIN wallets THEN wallets
                  ELSE [n \in DOMAIN wallets \cup {wallet_name} |->
                            IF n = wallet_name THEN Wallet(wallet_name, key)
                            ELSE wallets[n]]
    /\ ret' = Ret("create_wallet", <<wallet_name>>, "None",
                  IF wallet_name \in DOMAIN wallets
                  THEN "Wallet name already exists!" ELSE "created")
    /\ UNCHANGED <<chain, pending_transactions, difficulty, utxo_set,
                   last_mining_time, now, threads, pkl, peers, sockets>>

\* pickle.dump(self, f): every attribute of the Blockchain object, the
\* wallets through Wallet.__getstate__
pickle_dump ==
    [chain |-> chain, pending_transactions |-> pending_transactions,
     difficulty |-> difficulty, utxo_set |-> utxo_set,
     wallets |-> [n \in DOMAIN wallets |-> Wallet_getstate(wallets[n])],
     mining_reward |-> mining_reward, target_block_time |-> target_block_time,
     last_mining_time |-> last_mining_time]

\* Blockchain.save_to_file
save_to_file ==
    /\ pkl' = <<pickle_dump>>
    /\ ret' = Ret("save_to_file", << >>, "None", "Blockchain saved")
    /\ UNCHANGED <<chain, pending_transactions, difficulty, utxo_set,
                   last_mining_time, now, threads, wallets, peers, sockets>>

\* load_from_file without its assignment to self.difficulty
load_from_file_keeping_difficulty(keys) ==
    IF pkl = << >>
    THEN /\ ret' = Ret("load_from_file", << >>, "False", "")
         /\ UNCHANGED <<chain, pending_transactions, difficulty, utxo_set,
                        last_mining_time, now, threads, wallets, pkl, peers,
                        sockets>>
    ELSE LET loaded_blockchain == pkl[1]
         IN  /\ chain' = loaded_blockchain.chain
             /\ pending_transactions' = loaded_blockchain.pending_transactions
             /\ utxo_set' = loaded_blockchain.utxo_set
             /\ wallets' = [n \in DOMAIN loaded_blockchain.wallets |->
                                Wallet_setstate(loaded_blockchain.wallets[n],
                                                keys[n])]
             /\ ret' = Ret("load_from_file", << >>, "True", "Blockchain loaded")
             /\ UNCHANGED <<difficulty, last_mining_time, now, threads, pkl,
                            peers, sockets>>

\* Blockchain.load_from_file; keys are the key pairs Wallet.__setstate__
\* generates while pickle.load rebuilds the wallets
load_from_file(keys) ==
    IF pkl = << >>
    THEN /\ ret' = Ret("load_from_file", << >>, "False", "")
         /\ UNCHANGED <<chain, pending_transactions, difficulty, utxo_set,
                        last_mining_time, now, threads, wallets, pkl, peers,
                        sockets>>
    ELSE LET loaded_blockchain == pkl[1]
         IN  /\ chain' = loaded_blockchain.chain
             /\ pending_transactions' = loaded_blockchain.pending_transactions
             /\ difficulty' = loaded_blockchain.difficulty
             /\ utxo_set' = loaded_blockchain.utxo_set
             /\ wallets' = [n \in DOMAIN loaded_blockchain.wallets |->
                                Wallet_setstate(loaded_blockchain.wallets[n],
                                                keys[n])]
             /\ ret' = Ret("load_from_file", << >>, "True", "Blockchain loaded")
             /\ UNCHANGED <<last_mining_time, now, threads, pkl, peers, sockets>>

\* the program is started again: Blockchain(difficulty=d), the file stays
Blockchain_init(d) ==
    /\ chain' = <<create_genesis_block(d, now)>>
    /\ pending_transactions' = << >>
    /\ difficulty' = d
    /\ utxo_set' = << >>
    /\ wallets' = << >>
    /\ last_mining_time' = 0
    /\ ret' = Ret("__init__", << >>, "None", "")
    /\ UNCHANGED <<now, threads, pkl, peers, sockets>>

\* the wallets the user creates, and the transfers with the name of the
\* wallet that signs them: the initial credit of initialize_wallets
DiskWallets == {"Alice"}
DiskTransfers == {<<"Genesis", "Alice", "Alice">>}

NextDisk ==
    \/ \E wallet_name \in DiskWallets, key \in Keys :
           create_wallet(wallet_name, key)
    \/ \E transfer \in DiskTransfers, amount \in Amounts :
           /\ transfer[3] \in DOMAIN wallets
           /\ Held(chain, pending_transactions) < MaxTransactions - 1
           /\ add_transaction(transfer[1], transfer[2], amount,
                              wallets[transfer[3]])
           /\ UNCHANGED rest
    \/ \E miner_address \in NetMiners :
           /\ Len(chain) < MaxChain - 1
           /\ mine_block(miner_address)
           /\ UNCHANGED rest
    \/ save_to_file
    \/ \E keys \in [(IF pkl = << >> THEN {} ELSE DOMAIN pkl[1].wallets) -> Keys] :
           load_from_file(keys)
    \/ \E d \in {0, MaxInitDifficulty} : Blockchain_init(d)

\* a node whose state is saved to blockchain.pkl and loaded from it, also
\* after the program has been started again
SpecDisk == Init /\ [][NextDisk]_vars

(***************************************************************************)
(* Peers whose chains do not start with a genesis block                    *)
(***************************************************************************)
\* a first block as validate_received_chain wants it, index 0 and
\* previous_hash "0", that is not a genesis block: it holds a transaction,
\* its merkle_root and a nonce of 1
ForgedGenesis ==
    LET g == Block(0, TicksPerSec, <<PeerTransaction(1)>>, ZeroStr, 1,
                   MaxInitDifficulty,
                   calculate_merkle_root(<<PeerTransaction(1)>>), None)
    IN  [g EXCEPT !.hash = calculate_hash(g)]

\* a chain of n blocks a peer built on the block first
RECURSIVE ChainOn(_, _)
ChainOn(first, n) ==
    IF n = 1 THEN <<first>>
    ELSE LET shorter == ChainOn(first, n - 1)
         IN  Append(shorter, PeerBlock(Last(shorter), n - 1, MaxInitDifficulty,
                                       "none"))

\* the chains peers send: sound ones, and ones built on the forged block
GenesisPeerChains ==
    ThreadPeerChains \cup {ChainOn(ForgedGenesis, n) : n \in 2..MaxChain}

NextGenesis ==
    \/ \E sender \in NetSenders, recipient \in NetRecipients, amount \in Amounts :
           /\ add_transaction(sender, recipient, amount,
                              WalletOf(sender, recipient))
           /\ UNCHANGED rest
    \/ \E miner_address \in NetMiners :
           mine_block(miner_address) /\ UNCHANGED rest
    \/ \E chain_data \in GenesisPeerChains :
           handle_chain_response(chain_data) /\ UNCHANGED rest

\* a node that serves local calls and the chains of its peers
SpecGenesis == Init /\ [][NextGenesis]_vars

(***************************************************************************)
(* calculate_merkle_root called on its own                                 *)
(***************************************************************************)
\* longest transaction list calculate_merkle_root is called on
MaxMerkle == 3

\* the transactions of the lists: two that differ in the hashed fields, and
\* one that differs from the first in its signature only
MerkleTransactions ==
    {PeerTransaction(1), PeerTransaction(2),
     [PeerTransaction(1) EXCEPT !.signature = None]}

\* the sequences over S of length n
SeqsOfLen(S, n) == [1..n -> S]

\* the rearrangements of the sequence s
Rearrangements(s) ==
    {[i \in 1..Len(s) |-> s[order[i]]] : order \in Orders(1..Len(s))}

\* a Blockchain whose mempool holds any list of the transactions
InitMerkle ==
    /\ now = TicksPerSec
    /\ difficulty = MaxInitDifficulty
    /\ chain = <<create_genesis_block(difficulty, now)>>
    /\ pending_transactions \in
           UNION {SeqsOfLen(MerkleTransactions, n) : n \in 0..MaxMerkle}
    /\ utxo_set = << >>
    /\ last_mining_time = 0
    /\ ret = Ret("__init__", << >>, "None", "")
    /\ threads = NoThreads
    /\ wallets = << >>
    /\ pkl = << >>
    /\ peers = {}
    /\ sockets = << >>

\* Blockchain.calculate_merkle_root(transactions), called on the mempool
call_calculate_merkle_root ==
    /\ ret' = Ret("calculate_merkle_root", <<pending_transactions>>,
                  calculate_merkle_root(pending_transactions), "")
    /\ UNCHANGED <<chain, pending_transactions, difficulty, utxo_set,
                   last_mining_time, now, threads, wallets, pkl, peers,
                   sockets>>

\* the caller rearranges the list between two calls
reorder(transactions) ==
    /\ pending_transactions' = transactions
    /\ UNCHANGED <<chain, difficulty, utxo_set, last_mining_time, now, ret,
                   threads, wallets, pkl, peers, sockets>>

NextMerkle ==
    \/ call_calculate_merkle_root
    \/ \E transactions \in Rearrangements(pending_transactions) :
           reorder(transactions)

SpecMerkle == InitMerkle /\ [][NextMerkle]_vars

(***************************************************************************)
(* Block announcements handled by several threads while the main thread    *)
(* mines: handle_new_block tests the block, then calls add_block, then     *)
(* filters the mempool, and another thread runs between any two of these   *)
(***************************************************************************)
\* most handle_new_block calls in progress at once
MaxHandlers == 2

\* the transactions the peers announce and put into their blocks
RaceTransactionIds == {1, 2}

\* the sound blocks peers announce to a node whose chain is c: competing
\* blocks for the same head, each with another transaction, and blocks
\* built on the genesis block, which by then may no longer be the head
RacePeerBlocks(c) ==
    {PeerBlock(prev, k, MaxInitDifficulty, "none") :
         prev \in {c[1], get_latest_block(c)}, k \in RaceTransactionIds}

\* handle_new_block up to its test (lines 208-209), evaluated on the chain
\* as it is now
handle_new_block_begin(block) ==
    /\ Len(threads.handling) < MaxHandlers
    /\ IF /\ is_block_valid(chain, block)
          /\ block.previous_hash = get_latest_block(chain).hash
       THEN /\ threads' = [threads EXCEPT !.handling =
                               Append(@, [block |-> block, pc |-> "add_block",
                                          added |-> FALSE])]
            /\ UNCHANGED ret
       ELSE /\ ret' = Ret("process_message", << >>, "None", "")
            /\ UNCHANGED threads
    /\ UNCHANGED <<chain, pending_transactions, difficulty, utxo_set,
                   last_mining_time, now>>

\* handle_new_block, line 210: add_block tests the block again, on the chain
\* as it is by now, and its return value is dropped
handle_new_block_add_block(h) ==
    /\ threads.handling[h].pc = "add_block"
    /\ LET block == threads.handling[h].block
           valid == is_block_valid(chain, block)
       IN  /\ chain' = add_block(chain, block)
           /\ utxo_set' = IF valid THEN update_utxo_set(chain') ELSE utxo_set
           /\ threads' = [threads EXCEPT !.handling[h].pc = "filter",
                                         !.handling[h].added = valid]
    /\ UNCHANGED <<pending_transactions, difficulty, last_mining_time, now, ret>>

\* handle_new_block, lines 211-219: the message is printed and the mempool
\* is replaced by its transactions that are not in the block
handle_new_block_end(h) ==
    /\ threads.handling[h].pc = "filter"
    /\ pending_transactions' =
           NotInBlock(pending_transactions, threads.handling[h].block)
    /\ threads' = [threads EXCEPT !.handling = RemoveAt(@, h)]
    /\ ret' = Ret("process_message",
                  <<threads.handling[h].block, threads.handling[h].added>>,
                  "None", "Received new block from peer")
    /\ UNCHANGED <<chain, difficulty, utxo_set, last_mining_time, now>>

NextRace ==
    \/ \E k \in RaceTransactionIds :
           /\ Held(chain, pending_transactions) < MaxTransactions
           /\ handle_new_transaction(PeerTransaction(k))
           /\ UNCHANGED rest
    \/ \E miner_address \in NetMiners :
           /\ mine_block_begin(miner_address)
           /\ UNCHANGED <<wallets, pkl, peers, sockets>>
    \/ mine_block_end /\ UNCHANGED <<wallets, pkl, peers, sockets>>
    \/ \E block \in RacePeerBlocks(chain) :
           /\ Len(chain) < MaxChain
           /\ handle_new_block_begin(block)
           /\ UNCHANGED <<wallets, pkl, peers, sockets>>
    \/ \E h \in 1..Len(threads.handling) :
           /\ handle_new_block_add_block(h)
           /\ UNCHANGED <<wallets, pkl, peers, sockets>>
    \/ \E h \in 1..Len(threads.handling) :
           /\ handle_new_block_end(h)
           /\ UNCHANGED <<wallets, pkl, peers, sockets>>

\* a node whose main thread mines while handler threads take transaction
\* and block announcements, all within one tick of the clock
SpecRace == Init /\ [][NextRace]_vars

(***************************************************************************)
(* Peers whose blocks carry a Merkle root of other transactions            *)
(***************************************************************************)
\* a block a peer built on the block prev whose merkle_root was computed
\* before the reward transaction was added to its transactions; the nonce
\* is solved and the stored hash is the content hash
WrongRootBlock(prev, k, d) ==
    LET good == mined_block(<<prev>>, <<PeerTransaction(k)>>, d, "Bob",
                            TicksPerSec)
        b == [good EXCEPT
                  !.merkle_root = calculate_merkle_root(<<PeerTransaction(k)>>)]
        solved == [b EXCEPT !.nonce = ProofOfWork(b, 1, d)]
    IN  [solved EXCEPT !.hash = calculate_hash(solved)]

\* the blocks peers announce to a node whose chain is c
RootPeerBlocks(c) ==
    {PeerBlock(get_latest_block(c), Len(c), MaxInitDifficulty, "none"),
     WrongRootBlock(get_latest_block(c), Len(c), MaxInitDifficulty)}

\* the chains peers send: sound ones, and ones that end with such a block
RootPeerChains ==
    {PeerChain(n, "none") : n \in 2..MaxChain}
        \cup {Append(PeerChain(n, "none"),
                     WrongRootBlock(Last(PeerChain(n, "none")), n,
                                    MaxInitDifficulty)) : n \in 1..(MaxChain - 1)}

NextRoots ==
    \/ \E sender \in NetSenders, recipient \in NetRecipients, amount \in Amounts :
           /\ add_transaction(sender, recipient, amount,
                              WalletOf(sender, recipient))
           /\ UNCHANGED rest
    \/ \E miner_address \in NetMiners :
           mine_block(miner_address) /\ UNCHANGED rest
    \/ \E block \in RootPeerBlocks(chain) :
           /\ Len(chain) < MaxChain
           /\ handle_new_block(block)
           /\ UNCHANGED rest
    \/ \E chain_data \in RootPeerChains :
           handle_chain_response(chain_data) /\ UNCHANGED rest

\* a node that mines and takes blocks and chains from such peers
SpecRoots == Init /\ [][NextRoots]_vars

(***************************************************************************)
(* Direct mutation of committed data (the tampering step of                *)
(* demonstrate_immutability, for every field)                              *)
(***************************************************************************)
BlockFields == {"index", "timestamp", "previous_hash", "nonce", "difficulty",
                "merkle_root", "hash"}
TransactionFields == {"sender", "recipient", "amount", "transaction_id",
                      "timestamp", "signature"}

\* block b with one field given another value
TamperBlock(b, field) ==
    CASE field = "index" -> [b EXCEPT !.index = @ + 1]
      [] field = "timestamp" -> [b EXCEPT !.timestamp = @ + 1]
      [] field = "previous_hash" -> [b EXCEPT !.previous_hash = SHA256(@)]
      [] field = "nonce" -> [b EXCEPT !.nonce = @ + 1]
      [] field = "difficulty" -> [b EXCEPT !.difficulty = @ + 1]
      [] field = "merkle_root" -> [b EXCEPT !.merkle_root = SHA256(@)]
      [] field = "hash" -> [b EXCEPT !.hash = SHA256(@)]

\* transaction tx with one field given another value
TamperTransaction(tx, field) ==
    CASE field = "sender" -> [tx EXCEPT !.sender = "Mallory"]
      [] field = "recipient" -> [tx EXCEPT !.recipient = "Mallory"]
      [] field = "amount" -> [tx EXCEPT !.amount = @ + 1]
      [] field = "transaction_id" ->
             [tx EXCEPT !.transaction_id = <<"Mallory", "Mallory", 0>>]
      [] field = "timestamp" -> [tx EXCEPT !.timestamp = @ + 1]
      [] field = "signature" ->
             [tx EXCEPT !.signature =
                  IF @ = None THEN <<"Mallory", tx_to_dict(tx)>> ELSE None]

\* one field of block i is overwritten in place
TamperWithBlock(i, field) ==
    /\ chain' = [chain EXCEPT ![i] = TamperBlock(@, field)]
    /\ ret' = Ret("tamper", <<i, 0, field>>, "None", "")
    /\ UNCHANGED <<pending_transactions, difficulty, utxo_set,
                   last_mining_time, now>>

\* one field of transaction j of block i is overwritten in place
TamperWithTransaction(i, j, field) ==
    /\ chain' = [chain EXCEPT ![i].transactions[j] = TamperTransaction(@, field)]
    /\ ret' = Ret("tamper", <<i, j, field>>, "None", "")
    /\ UNCHANGED <<pending_transactions, difficulty, utxo_set,
                   last_mining_time, now>>

\* block b declaring a difficulty no digest meets, with the stored hash
\* recomputed: a block whose proof of work was not solved
ForgedBlock(b) ==
    LET unsolved == [b EXCEPT !.difficulty = HashLen + 1]
    IN  [unsolved EXCEPT !.hash = calculate_hash(unsolved)]

\* block i is replaced by a forged block
ReplaceWithForgedBlock(i) ==
    /\ chain' = [chain EXCEPT ![i] = ForgedBlock(@)]
    /\ ret' = Ret("forge", <<i>>, "None", "")
    /\ UNCHANGED <<pending_transactions, difficulty, utxo_set,
                   last_mining_time, now>>

\* blocks i and j change places
SwapBlocks(i, j) ==
    /\ chain' = [chain EXCEPT ![i] = chain[j], ![j] = chain[i]]
    /\ ret' = Ret("swap", <<i, j>>, "None", "")
    /\ UNCHANGED <<pending_transactions, difficulty, utxo_set,
                   last_mining_time, now>>

\* the chain c from block i on, without the blocks at the positions removed
RECURSIVE WithoutBlocks(_, _, _)
WithoutBlocks(c, removed, i) ==
    IF i > Len(c) THEN << >>
    ELSE (IF i \in removed THEN << >> ELSE <<c[i]>>)
             \o WithoutBlocks(c, removed, i + 1)

\* the blocks at the positions removed are deleted from the chain
TruncateChain(removed) ==
    /\ chain' = WithoutBlocks(chain, removed, 1)
    /\ ret' = Ret("truncate", <<removed, Len(chain)>>, "None", "")
    /\ UNCHANGED <<pending_transactions, difficulty, utxo_set,
                   last_mining_time, now>>

\* no committed data has been altered yet
Untouched == ret.op \notin {"tamper", "forge", "swap", "truncate"}

NextTamper ==
    \/ Untouched /\ Tick /\ now' \in NetClockValues /\ UNCHANGED rest
    \/ \E sender \in NetSenders, recipient \in NetRecipients, amount \in Amounts :
           /\ Untouched
           /\ add_transaction(sender, recipient, amount,
                              WalletOf(sender, recipient))
           /\ UNCHANGED rest
    \/ \E miner_address \in NetMiners :
           Untouched /\ mine_block(miner_address) /\ UNCHANGED rest
    \/ \E i \in 1..Len(chain), field \in BlockFields :
           Untouched /\ TamperWithBlock(i, field) /\ UNCHANGED rest
    \/ \E i \in 1..Len(chain) :
           \E j \in 1..Len(chain[i].transactions), field \in TransactionFields :
               Untouched /\ TamperWithTransaction(i, j, field)
                         /\ UNCHANGED rest
    \/ \E i \in 2..Len(chain) :
           Untouched /\ ReplaceWithForgedBlock(i) /\ UNCHANGED rest
    \/ \E i, j \in 1..Len(chain) :
           Untouched /\ i < j /\ SwapBlocks(i, j) /\ UNCHANGED rest
    \/ \E removed \in SUBSET (2..Len(chain)) :
           /\ Untouched /\ removed # {}
           /\ TruncateChain(removed) /\ UNCHANGED rest

\* a node that serves local calls until one field of its committed data is
\* overwritten
SpecTamper == Init /\ [][NextTamper]_vars

(***************************************************************************)
(* Properties                                                              *)
(***************************************************************************)
\* the step is a call of op (the clock does not move during a call)
Called(op) == ret'.op = op /\ now' = now

\* some pending transaction was sent by sender
HasPending(pending, sender) ==
    \E i \in 1..Len(pending) : pending[i].sender = sender

\* C1: after any sequence of local add_transaction and mine_block calls on a
\* freshly constructed Blockchain, is_chain_valid() is true.
C1_LocalChainValid == is_chain_valid(chain)

\* two blocks were mined, the second on top of the first
C1_Witness ==
    /\ Len(chain) = 3
    /\ chain[2].difficulty >= 1
    /\ ret.op = "mine_block" /\ ret.returned = "Block"

\* C3: for an ordinary address with no pending transaction, add_transaction
\* of an amount within its balance succeeds; while a transaction of that
\* address is pending, every further add_transaction from it is rejected.
C3_DoubleSpendGuard ==
    [][(Called("add_transaction") /\ ret'.args[1] \in Wallets) =>
           LET sender == ret'.args[1]
               amount == ret'.args[3]
           IN  /\ HasPending(pending_transactions, sender)
                      => ret'.returned = "False"
               /\ (/\ ~ HasPending(pending_transactions, sender)
                   /\ amount <= get_balance(chain, pending_transactions, sender))
                      => ret'.returned = "True"]_vars

\* C4 as stated: the mempool never holds two transactions of one sender.
C4_OnePendingPerSender ==
    \A i, j \in 1..Len(pending_transactions) :
        i # j => pending_transactions[i].sender # pending_transactions[j].sender

\* C4, amended: the mempool never holds two transactions with the same
\* sender other than "Genesis" and different transaction ids.
C4_OnePendingIdPerOrdinarySender ==
    \A i, j \in 1..Len(pending_transactions) :
        (/\ pending_transactions[i].sender = pending_transactions[j].sender
         /\ pending_transactions[i].sender # "Genesis")
            => pending_transactions[i].transaction_id
                   = pending_transactions[j].transaction_id

\* an ordinary sender with a pending transaction was refused a second one
C4_Witness ==
    /\ ret.op = "add_transaction"
    /\ ret.printed = "Double-spend detected!"
    /\ HasPending(pending_transactions, ret.args[1])

\* C8: every block mine_block appends has a stored hash equal to its content
\* hash, carries the network difficulty in force when mining started, and
\* its hash starts with that many '0' characters.
C8_MinedBlockMeetsDifficulty ==
    [][(Called("mine_block") /\ ret'.returned = "Block") =>
           LET b == Last(chain')
           IN  /\ Len(chain') = Len(chain) + 1
               /\ b.hash = calculate_hash(b)
               /\ b.difficulty = difficulty
               /\ StartsWithZeros(b.hash, difficulty)]_vars

\* a block was mined at a difficulty of at least 1 and the first nonce tried
\* did not solve it
C8_Witness ==
    /\ ret.op = "mine_block" /\ ret.returned = "Block"
    /\ Last(chain).difficulty >= 1
    /\ Last(chain).nonce > 1

\* C10: mine_block on an empty mempool returns None and leaves chain,
\* mempool, difficulty and last_mining_time unchanged; mine_block never
\* appends a block that holds only the reward.
C10_EmptyMempoolNotMined ==
    [][Called("mine_block") =>
           /\ pending_transactions = << >> =>
                  /\ ret'.returned = "None"
                  /\ UNCHANGED <<chain, pending_transactions, difficulty,
                                 last_mining_time>>
           /\ chain' # chain => Len(Last(chain').transactions) >= 2]_vars

\* mine_block was called on an empty mempool after a block had been mined
C10_Witness ==
    /\ ret.op = "mine_block" /\ ret.returned = "None"
    /\ pending_transactions = << >>
    /\ Len(chain) >= 2

\* the addresses whose balances are compared
Addresses == {"Genesis", "System", "Alice", "Bob"}

C2_Reached(i, j, field) ==
    IF j = 0
    THEN i >= 2 \/ (field = "hash" /\ Len(chain) >= 2)
    ELSE field # "signature"

C5_ChainBlocksConsistent ==
    \A i \in 1..Len(chain) :
        /\ chain[i].hash = calculate_hash(chain[i])
        /\ i >= 2 => /\ StartsWithZeros(chain[i].hash, chain[i].difficulty)
                     /\ chain[i].previous_hash = chain[i - 1].hash

\* the structural check as the claim states it
C6_Structural(chain_data) ==
    /\ chain_data # << >>
    /\ chain_data[1].index = 0
    /\ chain_data[1].previous_hash = ZeroStr
    /\ \A i \in 1..(Len(chain_data) - 1) :
           /\ chain_data[i + 1].previous_hash = chain_data[i].hash
           /\ chain_data[i + 1].index = chain_data[i].index + 1

C7_Replay(txs, address) ==
    SumSeq([k \in 1..Len(txs) |->
                IF txs[k].recipient = address THEN txs[k].amount ELSE 0])
        - SumSeq([k \in 1..Len(txs) |->
                      IF txs[k].sender = address THEN txs[k].amount ELSE 0])

\* the step adopts a chain two blocks longer than the local one
C7_AdoptsTwoLonger ==
    /\ Called("process_message")
    /\ ret'.printed = "Updated blockchain from peer"
    /\ Len(chain') = Len(chain) + 2

C9_MinedBlockShape ==
    [][(Called("mine_block") /\ ret'.returned = "Block") =>
           LET b == Last(chain')
               head == Last(chain)
               n == Len(pending_transactions)
           IN  /\ chain' = Append(chain, b)
               /\ b.index = head.index + 1
               /\ b.previous_hash = head.hash
               /\ Len(b.transactions) = n + 1
               /\ SubSeq(b.transactions, 1, n) = pending_transactions
               /\ b.transactions[n + 1].sender = "System"
               /\ b.transactions[n + 1].recipient = ret'.args[1]
               /\ b.transactions[n + 1].amount = mining_reward
               /\ pending_transactions' = << >>]_vars

\* C11: add_transaction returns False on every failure path, says which
\* check failed and leaves chain, mempool and difficulty as they were; on
\* success it appends exactly the new transaction at the end of the mempool
\* and changes nothing else.
C11_AddTransactionFrame ==
    [][Called("add_transaction") =>
           LET n == Len(pending_transactions)
           IN  /\ ret'.returned \in {"True", "False"}
               /\ ret'.returned = "False" =>
                      /\ ret'.printed \in {"Insufficient balance",
                                           "Invalid transaction signature",
                                           "Double-spend detected!"}
                      /\ UNCHANGED <<chain, pending_transactions, difficulty>>
               /\ ret'.returned = "True" =>
                      /\ Len(pending_transactions') = n + 1
                      /\ SubSeq(pending_transactions', 1, n)
                             = pending_transactions
                      /\ Last(pending_transactions').sender = ret'.args[1]
                      /\ Last(pending_transactions').recipient = ret'.args[2]
                      /\ Last(pending_transactions').amount = ret'.args[3]
                      /\ UNCHANGED <<chain, difficulty, utxo_set,
                                     last_mining_time>>]_vars

\* add_transaction failed for want of balance while the mempool was not empty
C11_Witness ==
    /\ ret.op = "add_transaction" /\ ret.returned = "False"
    /\ ret.printed = "Insufficient balance"
    /\ pending_transactions # << >>

\* C12: add_transaction rejects an ordinary sender whose balance over the
\* chain and the mempool is below the amount, and so no wallet's balance is
\* ever negative.
C12_NoOverdraft ==
    /\ [](\A address \in Wallets :
              C7_Replay(AllTransactions(chain) \o pending_transactions, address)
                  >= 0)
    /\ [][(/\ Called("add_transaction")
            /\ ret'.args[1] # "Genesis"
            /\ C7_Replay(AllTransactions(chain) \o pending_transactions,
                         ret'.args[1]) < ret'.args[3])
              => /\ ret'.returned = "False"
                 /\ pending_transactions' = pending_transactions]_vars

\* a sender with a positive balance was refused a larger amount
C12_Witness ==
    /\ ret.op = "add_transaction"
    /\ ret.printed = "Insufficient balance"
    /\ get_balance(chain, pending_transactions, ret.args[1]) > 0
    /\ get_balance(chain, pending_transactions, ret.args[1]) < ret.args[3]

\* C13: add_transaction admits a transaction of an ordinary sender only if
\* its signature verifies against the sender's own wallet, and rejects a call
\* whose signing wallet is not the sender's.
C13_ForeignWalletRejected ==
    [][(Called("add_transaction") /\ ret'.args[1] # "Genesis") =>
           LET sender == ret'.args[1]
               wallet == ret'.args[4]
               admitted == Last(pending_transactions')
           IN  /\ ret'.returned = "True" =>
                      verify_signature(sender, admitted, admitted.signature)
               /\ wallet # sender => ret'.returned = "False"]_vars

\* the three conditions of C14 on a block offered to a node whose chain is c
C14_Conditions(c, block) ==
    /\ block.previous_hash = c[Len(c)].hash
    /\ LeadingZeros(block.hash) >= block.difficulty
    /\ block.hash = calculate_hash(block)

\* C14: is_block_valid(block) is true exactly when the block links to the
\* head's stored hash, its hash starts with its difficulty count of '0' and
\* equals its recomputed content hash; the call changes neither chain nor
\* mempool.
C14_IsBlockValidIff ==
    [][\A block \in RelayPeerBlocks(chain) :
           call_is_block_valid(block) =>
               /\ ret'.returned = "True" <=> C14_Conditions(chain, block)
               /\ UNCHANGED <<chain, pending_transactions>>]_vars

\* is_block_valid returned True for a block offered on top of a grown chain
C14_Witness ==
    /\ ret.op = "is_block_valid" /\ ret.returned = "True"
    /\ Len(chain) >= 2

\* C16: raising the amount of a transaction committed in a block after the
\* genesis block makes that block's content hash differ from its stored
\* hash and is_chain_valid false, writing the amount back makes it true
\* again, and demonstrate_immutability on a valid chain of two or more
\* blocks returns True and leaves the chain as it found it.
C16_DemonstrationDetects ==
    /\ [](is_chain_valid(chain) =>
              \A i \in 2..Len(chain) :
                  \A j \in 1..Len(chain[i].transactions) :
                      LET raised == [chain EXCEPT
                                        ![i].transactions[j].amount = @ + 1]
                          back == [raised EXCEPT
                                      ![i].transactions[j].amount = @ - 1]
                      IN  /\ calculate_hash(raised[i]) # chain[i].hash
                          /\ ~ is_chain_valid(raised)
                          /\ is_chain_valid(back))
    /\ [][(/\ Called("demonstrate_immutability")
            /\ is_chain_valid(chain)
            /\ Len(chain) >= 2)
              => /\ ret'.returned = "True"
                 /\ chain' = chain]_vars

\* C16, amended: as C16, for a valid chain of two or more blocks whose block
\* #1 holds a transaction; when it holds none, demonstrate_immutability
\* returns False, and in both cases the chain is left as it was.
C16_DemonstrationDetectsWhenTampered ==
    /\ [](is_chain_valid(chain) =>
              \A i \in 2..Len(chain) :
                  \A j \in 1..Len(chain[i].transactions) :
                      LET raised == [chain EXCEPT
                                        ![i].transactions[j].amount = @ + 1]
                          back == [raised EXCEPT
                                      ![i].transactions[j].amount = @ - 1]
                      IN  /\ calculate_hash(raised[i]) # chain[i].hash
                          /\ ~ is_chain_valid(raised)
                          /\ is_chain_valid(back))
    /\ [][(/\ Called("demonstrate_immutability")
            /\ is_chain_valid(chain)
            /\ Len(chain) >= 2)
              => /\ ret'.returned = "True" <=> chain[2].transactions # << >>
                 /\ chain' = chain]_vars

\* demonstrate_immutability returned True on a chain of three blocks
C16_Witness ==
    /\ ret.op = "demonstrate_immutability" /\ ret.returned = "True"
    /\ Len(chain) = 3

\* C17: handle_new_transaction appends the announced transaction exactly
\* when no pending transaction has its transaction_id, so that afterwards
\* one has it and a second handling adds nothing; the chain is unchanged.
C17_RelayedTransactionAdmission ==
    [][\A transaction \in RelayPeerTransactions :
           handle_new_transaction(transaction) =>
               LET fresh == \A i \in 1..Len(pending_transactions) :
                                pending_transactions[i].transaction_id
                                    # transaction.transaction_id
               IN  /\ pending_transactions' =
                          IF fresh
                          THEN Append(pending_transactions, transaction)
                          ELSE pending_transactions
                   /\ \E i \in 1..Len(pending_transactions') :
                          pending_transactions'[i].transaction_id
                              = transaction.transaction_id
                   /\ chain' = chain]_vars

\* an unsigned transaction of a sender without funds was admitted
C17_Witness ==
    /\ ret.printed = "Received new transaction from peer"
    /\ \E i \in 1..Len(pending_transactions) :
           /\ pending_transactions[i].signature = None
           /\ get_balance(chain, pending_transactions,
                          pending_transactions[i].sender) < 0

\* C18: handle_new_block appends the announced block exactly when it passes
\* the three conditions of is_block_valid against the local head; it then
\* removes from the mempool the transactions whose transaction_id is in the
\* block, keeping the order of the rest, and otherwise changes neither
\* chain nor mempool.
C18_NewBlockAcceptance ==
    [][\A block \in RelayPeerBlocks(chain) :
           (Len(chain) < MaxChain /\ handle_new_block(block)) =>
               LET InBlock(tx) ==
                       \E i \in 1..Len(block.transactions) :
                           block.transactions[i].transaction_id
                               = tx.transaction_id
                   Kept(tx) == ~ InBlock(tx)
               IN  IF C14_Conditions(chain, block)
                   THEN /\ chain' = Append(chain, block)
                        /\ pending_transactions' =
                               SelectSeq(pending_transactions, Kept)
                   ELSE UNCHANGED <<chain, pending_transactions>>]_vars

\* a block with transactions was accepted and a pending transaction stayed
C18_Witness ==
    /\ ret.printed = "Received new block from peer"
    /\ Last(chain).transactions # << >>
    /\ pending_transactions # << >>

\* the step alters a valid chain of three or more blocks by replacing a
\* block, swapping two blocks or removing blocks
C15_Alters ==
    /\ ret'.op \in {"forge", "swap", "truncate"} /\ now' = now
    /\ is_chain_valid(chain)
    /\ Len(chain) >= 3

\* C15 as stated: is_chain_valid is false after a non-genesis block is
\* replaced by a forged block whose hash does not meet its difficulty,
\* after two blocks are swapped, and after blocks are removed from the
\* middle or from the tail.
C15_AlteredChainDetected ==
    [][C15_Alters => ~ is_chain_valid(chain')]_vars

\* C15, amended: as C15, except that removing exactly the last blocks
\* leaves a chain that is_chain_valid accepts.
C15_AlteredChainDetectedUnlessTail ==
    [][C15_Alters =>
           LET tail_only ==
                   /\ ret'.op = "truncate"
                   /\ \E first \in 2..Len(chain) :
                          ret'.args[1] = first..Len(chain)
           IN  is_chain_valid(chain') <=> tail_only]_vars

\* a block was removed from the middle of a chain of three blocks
C15_Witness ==
    /\ ret.op = "truncate"
    /\ ret.args = <<{2}, 3>>
    /\ Len(chain) = 2

\* C19: a transaction admitted to the mempool while mine_block is between
\* its copy of the mempool and its clearing of it is not lost: when
\* mine_block completes, every transaction of the mempool is in the mined
\* block or still in the mempool.
C19_NoAdmittedTransactionLost ==
    [][(threads.mining # << >> /\ threads'.mining = << >>) =>
           \A i \in 1..Len(pending_transactions) :
               \/ \E j \in 1..Len(Last(chain').transactions) :
                      Last(chain').transactions[j] = pending_transactions[i]
               \/ \E j \in 1..Len(pending_transactions') :
                      pending_transactions'[j] = pending_transactions[i]]_vars

\* C20: while handle_chain_response adopts a peer chain, the chain another
\* thread reads holds at least the genesis block and is the complete old
\* chain or the complete new chain.
C20_ReadersSeeConsistentChain ==
    /\ Len(chain) >= 1
    /\ threads.adopting # << >> =>
           \/ chain = threads.adopting[1].old
           \/ chain = threads.adopting[1].chain_data

\* the step is a call of broadcast_message: the node's last call is one, and
\* the messages on their way are those of before followed by messages of
\* this node (a step of a peer removes a message or adds one of its own)
C21_Broadcasts ==
    /\ ret'.op = "broadcast_message"
    /\ now' = now
    /\ Len(sockets') >= Len(sockets)
    /\ SubSeq(sockets', 1, Len(sockets)) = sockets
    /\ \A i \in (Len(sockets) + 1)..Len(sockets') : sockets'[i].sender = "self"

\* C21: broadcast_message over two or more peers sends the message exactly
\* once to every peer that can be reached, whichever peers cannot be
\* reached and in whatever order the peer set is iterated.
C21_EveryReachablePeerSentOnce ==
    [][(C21_Broadcasts /\ Cardinality(peers) >= 2) =>
           \A peer \in peers :
               Connects(peer, ret'.args[3]) =>
                   Cardinality({i \in (Len(sockets) + 1)..Len(sockets') :
                                    sockets'[i].to = ParseAddress(peer)}) = 1]_vars

\* C22: broadcast_message returns normally whatever peers cannot be
\* reached, and when it returns exactly the peers whose send failed have
\* been removed from the peer set.
C22_BroadcastReturnsNormally ==
    [][C21_Broadcasts =>
           /\ ret'.returned = "None"
           /\ peers' = {peer \in peers : Connects(peer, ret'.args[3])}]_vars

\* C25: the node's own address is never in its peer set, and the node never
\* opens a connection to the endpoint it listens on.
C25_NeverConnectsToItself ==
    /\ OwnAddress \notin peers
    /\ \A i \in 1..Len(sockets) :
           sockets[i].sender = "self" => sockets[i].to # OwnEndpoint

\* the chain_request this node sent to the node on port + 1 is on its way,
\* and that node's chain is longer than this node's
C23_Requested ==
    /\ Len(chain) < Len(SyncPeerChain)
    /\ \E i \in 1..Len(sockets) :
           /\ sockets[i].type = "chain_request"
           /\ sockets[i].sender = "self"
           /\ sockets[i].to = <<host, port + 1>>

\* C23: after request_chain has sent a chain_request to a peer whose chain
\* is longer and structurally valid, and with every delivered message
\* eventually handled, the node eventually holds the peer's chain (or a
\* chain that is no longer shorter).
C23_SyncEventuallyAdopts ==
    C23_Requested ~> (chain = SyncPeerChain \/ Len(chain) >= Len(SyncPeerChain))

\* C24: after each successful mine_block, the first one
\* included, the difficulty rises by 1 if less than half the target time
\* has passed since the previous adjustment check, falls by 1 but not below
\* 1 (and never rises) if more than twice the target time has passed, and
\* is unchanged otherwise.
C24_AdjustedAfterEveryMine ==
    [][(Called("mine_block") /\ ret'.returned = "Block") =>
           LET elapsed == now - last_mining_time
           IN  IF 2 * elapsed < target_block_time * TicksPerSec
               THEN difficulty' = difficulty + 1
               ELSE IF elapsed > 2 * target_block_time * TicksPerSec
               THEN difficulty' = (IF difficulty > 1 THEN difficulty - 1
                                   ELSE difficulty)
               ELSE difficulty' = difficulty]_vars

\* C26: save_to_file followed by load_from_file gives back the chain (with
\* every block's stored hash), the mempool and the difficulty: the file
\* holds them as they were when it was written, and a successful load makes
\* them those of the file.
C26_RoundTrip ==
    /\ [][Called("save_to_file") =>
              /\ pkl'[1].chain = chain
              /\ pkl'[1].pending_transactions = pending_transactions
              /\ pkl'[1].difficulty = difficulty
              /\ UNCHANGED <<chain, pending_transactions, difficulty>>]_vars
    /\ [][(Called("load_from_file") /\ ret'.returned = "True") =>
              /\ chain' = pkl[1].chain
              /\ pending_transactions' = pkl[1].pending_transactions
              /\ difficulty' = pkl[1].difficulty
              /\ pkl' = pkl]_vars

\* a chain with a mined block and a mempool were loaded into a Blockchain
\* constructed at another difficulty than the saved one
C26_Witness ==
    /\ ret.op = "load_from_file" /\ ret.returned = "True"
    /\ Len(chain) >= 2
    /\ pending_transactions # << >>
    /\ last_mining_time = 0
    /\ difficulty # chain[1].difficulty

\* C27: after save_to_file and load_from_file every wallet has the name and
\* the key pair (public_key_pem) it had when saved, and the signatures its
\* wallet made before the save verify with the reloaded wallet.
C27_WalletsReproduced ==
    [][(Called("load_from_file") /\ ret'.returned = "True") =>
           /\ DOMAIN wallets' = DOMAIN pkl[1].wallets
           /\ \A n \in DOMAIN wallets' :
                  /\ wallets'[n].name = pkl[1].wallets[n].name
                  /\ wallets'[n].public_key_pem
                         = pkl[1].wallets[n].public_key_pem
           /\ \A i \in 1..Len(pending_transactions') :
                  LET transaction == pending_transactions'[i]
                  IN  \A n \in DOMAIN wallets' :
                          (/\ transaction.signature # None
                           /\ transaction.signature[1].name = n) =>
                              verify_signature(wallets'[n], transaction,
                                               transaction.signature)]_vars

\* the hashed fields of the transactions of a list, in order
C28_Hashed(transactions) ==
    [i \in 1..Len(transactions) |-> tx_to_dict(transactions[i])]

\* C28 as stated: calculate_merkle_root gives the same root when evaluated
\* again on the same list, and a different root for every rearrangement of
\* a list of two or more distinct transactions that is a different list.
C28_OrderSensitive ==
    ret.op = "calculate_merkle_root" =>
        LET transactions == ret.args[1]
        IN  /\ calculate_merkle_root(transactions) = ret.returned
            /\ \A other \in Rearrangements(transactions) :
                   other # transactions =>
                       calculate_merkle_root(other) # ret.returned

\* C28, amended: calculate_merkle_root gives the same root when evaluated
\* again on the same list, and a different root for exactly the
\* rearrangements in which some position holds a transaction with other
\* hashed fields (sender, recipient, amount, transaction_id, timestamp);
\* exchanging transactions that differ in the signature only keeps the root.
C28_OrderSensitiveInHashedFields ==
    ret.op = "calculate_merkle_root" =>
        LET transactions == ret.args[1]
        IN  /\ calculate_merkle_root(transactions) = ret.returned
            /\ \A other \in Rearrangements(transactions) :
                   (C28_Hashed(other) # C28_Hashed(transactions))
                       <=> (calculate_merkle_root(other) # ret.returned)

\* the root of a list of three transactions was computed, two of them with
\* different hashed fields
C28_Witness ==
    /\ ret.op = "calculate_merkle_root"
    /\ Len(ret.args[1]) = 3
    /\ tx_to_dict(ret.args[1][1]) # tx_to_dict(ret.args[1][2])
    /\ ret.returned = calculate_merkle_root(ret.args[1])

\* C29: in every state, also after the adoption of a peer's chain, the
\* first block of the chain is a genesis block: index 0, no transactions,
\* previous_hash "0", merkle_root "0", nonce 0, and a stored hash equal to
\* its content hash.
C29_FirstBlockIsGenesis ==
    /\ chain[1].index = 0
    /\ chain[1].transactions = << >>
    /\ chain[1].previous_hash = ZeroStr
    /\ chain[1].merkle_root = ZeroStr
    /\ chain[1].nonce = 0
    /\ chain[1].hash = calculate_hash(chain[1])

\* the chain c is the beginning of the chain longer
C30_IsPrefix(c, longer) ==
    /\ Len(c) <= Len(longer)
    /\ SubSeq(longer, 1, Len(c)) = c

C31_ScenarioBalance ==
    [][(/\ Called("mine_block") /\ ret'.returned = "Block"
        /\ Len(chain) = 1 /\ Len(pending_transactions) = 1
        /\ pending_transactions[1].sender = "Genesis"
        /\ pending_transactions[1].amount = 100)
       => /\ Len(chain') = 2
          /\ get_balance(chain', pending_transactions',
                         pending_transactions[1].recipient) = 100]_vars

\* C31 (amended): in that scenario the chain has 2 blocks, and get_balance(A)
\* is 100 when the miner is another address and 100 + mining_reward when the
\* miner is A itself.
C31_ScenarioBalanceWithReward ==
    [][(/\ Called("mine_block") /\ ret'.returned = "Block"
        /\ Len(chain) = 1 /\ Len(pending_transactions) = 1
        /\ pending_transactions[1].sender = "Genesis"
        /\ pending_transactions[1].amount = 100)
       => /\ Len(chain') = 2
          /\ get_balance(chain', pending_transactions',
                         pending_transactions[1].recipient)
                 = 100 + (IF ret'.args[1] = pending_transactions[1].recipient
                          THEN mining_reward ELSE 0)]_vars

\* the demo's case: Alice was given 100 and mined the block herself
C31_Witness ==
    /\ ret.op = "mine_block" /\ ret.returned = "Block"
    /\ ret.args = <<"Alice">>
    /\ Len(chain) = 2 /\ Len(chain[2].transactions) = 2
    /\ chain[2].transactions[1].sender = "Genesis"
    /\ chain[2].transactions[1].recipient = "Alice"
    /\ chain[2].transactions[1].amount = 100
    /\ get_balance(chain, pending_transactions, "Alice") = 100 + mining_reward

\* C32: every transaction in the mempool or in a committed block has a
\* non-negative amount, and no add_transaction call raises the balance of its
\* sender or lowers the balance of its recipient.
C32_NoNegativeAmount ==
    /\ \A i \in 1..Len(pending_transactions) :
           pending_transactions[i].amount >= 0
    /\ \A i \in 1..Len(chain) : \A j \in 1..Len(chain[i].transactions) :
           chain[i].transactions[j].amount >= 0
    /\ (ret.op = "add_transaction" /\ ret.args[3] < 0) => ret.returned = "False"

\* C33: under any interleaving of a local mine_block with handle_new_block
\* handler threads, the chain stays linked: every non-genesis block's
\* previous_hash is the stored hash of the block before it, and no two blocks
\* share a predecessor.
C33_ChainStaysLinked ==
    /\ \A i \in 2..Len(chain) : chain[i].previous_hash = chain[i - 1].hash
    /\ \A i, j \in 2..Len(chain) :
           i # j => chain[i].previous_hash # chain[j].previous_hash

\* C37: handle_new_block removes transactions from the mempool only when the
\* announced block was appended: the handler whose add_block failed leaves
\* the mempool as it is.
C37_FilterOnlyWhenAppended ==
    [][(/\ Len(threads'.handling) < Len(threads.handling)
        /\ ~ ret'.args[2])
       => pending_transactions' = pending_transactions]_vars

\* C34: block indices are sequential in every reachable state: the block at
\* position i of the chain (counted from 0) has index i, so a peer block whose
\* index is not head.index + 1 is not appended.
C34_IndicesSequential ==
    \A i \in 1..Len(chain) : chain[i].index = i - 1

\* C36: every block appended through handle_new_block has a hash with at
\* least as many leading '0' characters as the node's network difficulty, and
\* a block that declares a lower difficulty than that is rejected.
C36_AppendedBlockMeetsNodeDifficulty ==
    [][(/\ ret'.op = "process_message"
        /\ ret'.printed = "Received new block from peer"
        /\ chain' # chain)
       => /\ StartsWithZeros(Last(chain').hash, difficulty)
          /\ Last(chain').difficulty >= difficulty]_vars

\* the transaction_ids committed in the blocks of c
C35_CommittedIds(c) ==
    {AllTransactions(c)[i].transaction_id : i \in 1..Len(AllTransactions(c))}

\* C35: a transaction is committed at most once: no transaction_id appears
\* in more than one block of the chain, and a transaction already committed
\* in a block is not admitted to the mempool again when it is announced again.
C35_CommittedAtMostOnce ==
    /\ [](\A i, j \in 1..Len(chain) :
              i # j => C35_CommittedIds(<<chain[i]>>)
                           \cap C35_CommittedIds(<<chain[j]>>) = {})
    /\ [][(/\ ret'.op = "process_message"
            /\ ret'.printed = "Received new transaction from peer"
            /\ Len(pending_transactions') = Len(pending_transactions) + 1)
           => Last(pending_transactions').transaction_id
                  \notin C35_CommittedIds(chain)]_vars

\* the addresses that occur as sender or recipient, in a block or the mempool
C38_Occurring ==
    LET txs == AllTransactions(chain) \o pending_transactions
    IN  {txs[i].sender : i \in 1..Len(txs)}
            \cup {txs[i].recipient : i \in 1..Len(txs)}

\* the sum of get_balance over the addresses of S
RECURSIVE C38_Total(_)
C38_Total(S) ==
    IF S = {} THEN 0
    ELSE LET a == CHOOSE x \in S : TRUE
         IN  get_balance(chain, pending_transactions, a) + C38_Total(S \ {a})

\* what "Genesis" and "System" paid to ordinary addresses, less what
\* ordinary addresses paid to them
RECURSIVE C38_Issued(_)
C38_Issued(txs) ==
    IF txs = << >> THEN 0
    ELSE (IF /\ txs[1].sender \in {"Genesis", "System"}
             /\ txs[1].recipient \notin {"Genesis", "System"}
          THEN txs[1].amount ELSE 0)
         - (IF /\ txs[1].sender \notin {"Genesis", "System"}
               /\ txs[1].recipient \in {"Genesis", "System"}
            THEN txs[1].amount ELSE 0)
         + C38_Issued(Tail(txs))

\* C38: value conservation: in every reachable state the sum of get_balance
\* over all addresses that occur as sender or recipient ("Genesis" and
\* "System" included) is zero, and the total held by ordinary addresses is
\* what "Genesis" and "System" issued to them less what they paid back.
C38_ValueConserved ==
    /\ C38_Total(C38_Occurring) = 0
    /\ C38_Total(C38_Occurring \ {"Genesis", "System"})
           = C38_Issued(AllTransactions(chain) \o pending_transactions)

\* a chain was adopted from a peer over a non-empty mempool, rewards and
\* transfers are counted and an ordinary address holds coins
C38_Witness ==
    /\ ret.printed = "Updated blockchain from peer"
    /\ pending_transactions # << >>
    /\ {"Genesis", "System", "Alice", "Bob"} \subseteq C38_Occurring
    /\ C38_Total(C38_Occurring \ {"Genesis", "System"}) > 0

\* C39: in every reachable state every block of the chain has a merkle_root
\* equal to calculate_merkle_root of its own transactions ("0" when it has
\* none), whether it was mined locally or accepted from a peer.
C39_MerkleRootsMatch ==
    \A i \in 1..Len(chain) :
        chain[i].merkle_root = calculate_merkle_root(chain[i].transactions)

\* the non-empty lists a list is compared with: every list of the
\* transactions up to MaxMerkle long, and the list itself with its last
\* transaction appended once more
C40_Others(transactions) ==
    UNION {SeqsOfLen(MerkleTransactions, n) : n \in 1..MaxMerkle}
        \cup {Append(transactions, Last(transactions))}

\* C40: the Merkle root detects any change of the transaction list: for a
\* collision-free hash, two non-empty lists of different length, or with
\* different hashed fields at some position, have different
\* calculate_merkle_root values, also a list and the same list with its last
\* transaction appended once more.
C40_RootDetectsAnyChange ==
    (ret.op = "calculate_merkle_root" /\ ret.args[1] # << >>) =>
        LET transactions == ret.args[1]
        IN  \A other \in C40_Others(transactions) :
                C28_Hashed(other) # C28_Hashed(transactions) =>
                    calculate_merkle_root(other) # ret.returned

====
